---- MODULE Spec2Model ----
(***************************************************************************)
(* The udev (DRM) backend of the pinnacle compositor: device registry,     *)
(* connector hotplug, the per-surface RenderState machine driven by the    *)
(* calloop event loop (idle callbacks, vblank events), output power, and   *)
(* the screencopy handling of a render pass.  The winit backend's          *)
(* screencopy damage gate is modelled beside it.                           *)
(*                                                                         *)
(* Handlers are operators from a world record to a world record, so that a *)
(* handler that calls another one (on_vblank -> schedule_render,           *)
(* device_removed -> connector_disconnected) is one atomic action, as in   *)
(* the single-threaded event loop.                                         *)
(***************************************************************************)
EXTENDS Integers, Sequences, FiniteSets, TLC

VARIABLES
    backend,        \* "udev" | "winit": which Backend variant the process runs
    backends,       \* Udev::backends: the registered device nodes
    scanner,        \* per node: crtcs whose connector DrmScanner last saw connected
    surfaces,       \* per (node, crtc): the RenderSurface, or NoSurface
    outputs,        \* pinnacle.outputs: ids of the registered Outputs
    outData,        \* per Output id: its UdevOutputData (device_id, crtc), or NoData
    nextOut,        \* id the next Output::new gets
    powered,        \* per Output id: OutputState::powered
    mode_state,     \* per Output id: the Output's current mode and OutputState::modes
    scheduled,      \* State::schedule: the checks registered as idle callbacks,
                    \* the value of each condition, and how often each run ran
    screencopy,     \* per Output id: OutputState::screencopy (pending capture)
    lock_state,     \* pinnacle.lock_state
    idles,          \* event loop: idle callbacks registered, not yet taken for dispatch
    batch,          \* event loop: idle callbacks of the dispatch_idles pass under way
    sync_sources,   \* event loop: one-shot sources waiting for a capture's sync fd
    hw,             \* hardware: per node, crtcs whose connector is plugged in
    devList,        \* udev: the enumerable device nodes
    vblanks,        \* hardware: per (node, crtc), page-flip events not yet delivered
    commits,        \* per (node, crtc): current commit counters of the damage trackers
    output_render_scheduled,\* Winit::output_render_scheduled
    gpu_nodes,      \* Udev::gpu_manager: the nodes added to the GpuManager
    drm_sources,    \* event loop: the DRM notifier sources registered
    registration,   \* per node: UdevBackendData::registration_token (0: none)
    mapped,         \* pinnacle.space: the Outputs mapped into the space
    session,        \* whether the session is active, and what a pause found
    torn,           \* history: per (node, crtc), whether the surface last removed
                    \* had left the initial render, capture and gamma state
    client,         \* API client: the statics of lib.rs, the socket, and where
                    \* setup, the callback under way and read_msg stand
    cycler,         \* API client: a LayoutCycler's indices, and the tags it acts on
    panicked,       \* "none", or the panic that ended the process
    last            \* history: the handler that ran last and what it did

vars ==
    << backend, backends, scanner, surfaces, outputs, outData, nextOut, powered,
       screencopy, lock_state, idles, batch, sync_sources, hw, devList, vblanks,
       commits, output_render_scheduled, gpu_nodes, drm_sources, registration,
       mapped, session, torn, mode_state, scheduled, client, cycler, panicked,
       last >>

----------------------------------------------------------------------------
(* Bounds of the model *)

MaxOutputs == 2
    \* Output objects created in one run (a reconnect needs two)

MaxIdles == 3
    \* idle callbacks pending in the event loop at once

MaxInflight == 2
    \* page-flip events pending per crtc

MaxCalls == 2
    \* schedule_render calls counted per render state (the count saturates)

MaxCommit == 1
    \* commits taken by the damage trackers of a surface in one run

MaxSync == 1
    \* sync-fd sources of deferred capture submissions held by the loop at once

MaxSources == 2
    \* DRM notifier sources registered in the event loop at once

MaxTasks == 2
    \* calls of State::schedule in one run

MaxSide == 2
    \* width and height of an output in pixels, where a capture's pixels count

MaxCallbacks == 2
    \* callbacks the configuration of an API client registers

MaxRequests == 2
    \* requests an API client issues in one run

MaxMsgs == 3
    \* CallCallback messages the compositor sends to an API client in one run

MaxTags == 2
    \* tags a layout cycler acts on

MaxLayouts == 3
    \* length of the layout list of a layout cycler

Nodes == {"card0", "card1"}
Crtcs == {"crtc0", "crtc1"}
Keys == Nodes \X Crtcs
OutputIds == 1..(MaxOutputs + 1)

NoSurface == [tag |-> "NoSurface"]
NoData == [tag |-> "NoData"]
NoCapture == [tag |-> "NoCapture"]

\* The session: active, or paused with the device nodes tracked at the pause
\* (a history field).
SessionActive == [active |-> TRUE, tracked |-> {}]
SessionPaused(tracked) == [active |-> FALSE, tracked |-> tracked]

----------------------------------------------------------------------------
(* API client: the statics, send_msg, read_msg and request of lib.rs *)

CallbackIds == 0..(MaxCallbacks - 1)
RequestIds == 0..(MaxRequests - 1)

\* IncomingMsg. args stands for the payload: the compositor numbers the
\* CallCallback messages it sends, which tells them apart.
CallCallback(callback_id, args) ==
    [kind |-> "CallCallback", callback_id |-> callback_id, args |-> args]
RequestResponse(request_id) ==
    [kind |-> "RequestResponse", request_id |-> request_id, args |-> 0]
NoMsg == [kind |-> "None"]

\* No client: setup has not been called.
NotConnected == [pc |-> "none"]

\* setup after STREAM is connected, inside config_func, which has registered
\* n callbacks so far; nothing is buffered and no request was made.
\*   pc        where setup stands: "config" (in config_func), "loop" (top of the
\*             loop), "for" (iterating the unread callback messages), "read"
\*             (in read_msg(None)), "callback" (in a callback the loop called)
\*   ret       where the callback under way returns to
\*   waiting   the request id read_msg waits for, or -1
\*   held      the statics whose lock setup's loop holds
\*   iter, current, to_remove   the for loop over the unread callback messages
\*   stream    messages of the compositor not yet read from the socket
\*   outbox    request ids sent and not yet answered by the compositor
\*   sent, delivered, returned   history: CallCallback messages sent, the calls
\*             made to callbacks, the responses request returned
\*   stuck     "none"; "deadlock" or "panic": a lock was taken again by the
\*             thread that holds it; "assert": the assertion of setup failed
Connected(n) ==
    [pc |-> "config", ret |-> "none", waiting |-> -1, held |-> {},
     iter |-> {}, current |-> -1, to_remove |-> {},
     stream |-> << >>, outbox |-> << >>,
     UNREAD_CALLBACK_MSGS |-> [id \in CallbackIds |-> NoMsg],
     UNREAD_REQUEST_MSGS |-> [id \in RequestIds |-> NoMsg],
     CALLBACK_VEC |-> n, REQUEST_ID_COUNTER |-> 0,
     sent |-> 0, delivered |-> << >>, returned |-> << >>, stuck |-> "none"]

\* What taking a std Mutex again on the thread that holds it can do: the call
\* never returns, by blocking for ever or by panicking.
Relock == {"deadlock", "panic"}

\* send_msg of a Msg::Request.
send_msg(c, request_id) == [c EXCEPT !.outbox = Append(@, request_id)]

\* The return of read_msg(Some(request_id)) into request.
ReturnResponse(c, msg) ==
    [c EXCEPT !.waiting = -1,
              !.returned = Append(@, [request_id |-> c.waiting,
                                      response |-> msg.request_id])]

\* One turn of the loop of read_msg(Some(request_id)): a buffered response of
\* the request is returned; otherwise a message is read from the socket, a
\* CallCallback is inserted into UNREAD_CALLBACK_MSGS under its lock (how: what
\* happens when this thread already holds it), a response of another request
\* into UNREAD_REQUEST_MSGS, and the response of this request is returned.
read_msg(c, how) ==
    LET request_id == c.waiting
    IN  IF c.UNREAD_REQUEST_MSGS[request_id] # NoMsg
        THEN ReturnResponse([c EXCEPT !.UNREAD_REQUEST_MSGS[request_id] = NoMsg],
                            c.UNREAD_REQUEST_MSGS[request_id])
        ELSE LET incoming_msg == Head(c.stream)
                 c1 == [c EXCEPT !.stream = Tail(@)]
             IN  IF incoming_msg.kind = "CallCallback"
                 THEN IF "UNREAD_CALLBACK_MSGS" \in c.held
                      THEN [c1 EXCEPT !.stuck = how]
                      ELSE [c1 EXCEPT
                              !.UNREAD_CALLBACK_MSGS[incoming_msg.callback_id]
                                  = incoming_msg]
                 ELSE IF incoming_msg.request_id # request_id
                      THEN [c1 EXCEPT
                              !.UNREAD_REQUEST_MSGS[incoming_msg.request_id]
                                  = incoming_msg]
                      ELSE ReturnResponse(c1, incoming_msg)

\* request up to its call of read_msg: the next request id is taken and the
\* request is sent.
request(c) ==
    LET request_id == c.REQUEST_ID_COUNTER
    IN  [send_msg(c, request_id) EXCEPT
            !.REQUEST_ID_COUNTER = @ + 1, !.waiting = request_id]

\* A callback of CALLBACK_VEC is called with the args of msg.
Call(c, msg, ret) ==
    [c EXCEPT !.pc = "callback", !.ret = ret,
              !.delivered = Append(@, [callback_id |-> msg.callback_id,
                                       args |-> msg.args])]

\* setup, top of the loop: both statics are locked for the whole turn and the
\* for loop over the unread callback messages starts.
setup_loop(c) ==
    [c EXCEPT !.pc = "for",
              !.held = {"UNREAD_CALLBACK_MSGS", "CALLBACK_VEC"},
              !.iter = {id \in CallbackIds : c.UNREAD_CALLBACK_MSGS[id] # NoMsg},
              !.current = -1, !.to_remove = {}]

\* setup, one entry of the for loop: the callback of the message is called if
\* CALLBACK_VEC has it, otherwise the entry is passed over.
setup_for(c, cb_id) ==
    LET incoming_msg == c.UNREAD_CALLBACK_MSGS[cb_id]
        c1 == [c EXCEPT !.iter = @ \ {cb_id}]
    IN  IF incoming_msg.callback_id >= c.CALLBACK_VEC
        THEN c1
        ELSE Call([c1 EXCEPT !.current = cb_id], incoming_msg, "for")

\* setup, after the for loop: the entries whose callback ran are removed, and
\* read_msg(None) is entered.
setup_remove(c) ==
    [c EXCEPT !.pc = "read",
              !.UNREAD_CALLBACK_MSGS =
                  [id \in CallbackIds |->
                      IF id \in c.to_remove THEN NoMsg ELSE @[id]],
              !.to_remove = {}]

\* setup, read_msg(None) and what follows it: the message read must be a
\* CallCallback; its callback is called if CALLBACK_VEC has it, otherwise the
\* turn ends, which drops both locks.
setup_read(c) ==
    LET incoming_msg == Head(c.stream)
        c1 == [c EXCEPT !.stream = Tail(@)]
    IN  IF incoming_msg.kind # "CallCallback"
        THEN [c1 EXCEPT !.stuck = "assert"]
        ELSE IF incoming_msg.callback_id >= c.CALLBACK_VEC
             THEN [c1 EXCEPT !.pc = "loop", !.held = {}]
             ELSE Call(c1, incoming_msg, "loop")

\* The callback under way returns into setup: into the for loop, which notes
\* the entry for removal, or to the end of the turn, which drops both locks.
callback_return(c) ==
    IF c.ret = "for"
    THEN [c EXCEPT !.pc = "for", !.to_remove = @ \cup {c.current}]
    ELSE [c EXCEPT !.pc = "loop", !.held = {}]

----------------------------------------------------------------------------
(* API client: Tag::layout_cycler (tag.rs) *)

\* enum Layout, in the order of its declaration.
Layout ==
    << "MasterStack", "Dwindle", "Spiral", "CornerTopLeft", "CornerTopRight",
       "CornerBottomLeft", "CornerBottomRight" >>

TagIds == 1..MaxTags

\* No tag: the output has no active tag, or no output is focused.
NoTag == 0

\* usize, scaled down to 16 bits.
UsizeBits == 16
UsizeMax == 2^UsizeBits - 1
wrapping_sub(a, b) == (a + 2^UsizeBits - b) % 2^UsizeBits

\* HashMap::entry(tag).or_insert(0) on indices; -1 stands for no entry.
NoIndex == -1
or_insert(indices, tag) ==
    IF indices[tag] = NoIndex THEN [indices EXCEPT ![tag] = 0] ELSE indices

\* No cycler: Tag::layout_cycler has not been called.
NoCycler == [layouts |-> << >>]

\* Tag::layout_cycler(layouts), with every tag laid out as initial.
\*   layouts   the list the cycler was built from
\*   indices   the HashMap of the closure
\*   active    the first active tag of the output the call resolves, or NoTag
\*   layout    per tag, its layout in the compositor
layout_cycler(layouts, initial) ==
    [layouts |-> layouts, indices |-> [t \in TagIds |-> NoIndex],
     active |-> NoTag, layout |-> [t \in TagIds |-> initial]]

\* TagHandle::set_layout, by its effect in the compositor.
set_layout(cy, tag, layout) == [cy EXCEPT !.layout[tag] = layout]

cycle_bug_nowrap(cy, dir) ==
    \* faulty variant: Forward stops at the last layout instead of wrapping
    IF cy.active = NoTag THEN cy
    ELSE LET tag == cy.active
             len == Len(cy.layouts)
             indices == or_insert(cy.indices, tag)
             index == indices[tag]
             new == IF dir = "Forward"
                    THEN IF index + 1 >= len THEN index ELSE index + 1
                    ELSE IF wrapping_sub(index, 1) = UsizeMax
                         THEN len - 1 ELSE index - 1
         IN  set_layout([cy EXCEPT !.indices = [indices EXCEPT ![tag] = new]],
                        tag, cy.layouts[new + 1])

\* The cycle closure of Tag::layout_cycler.
cycle(cy, dir) ==
    IF cy.active = NoTag THEN cy
    ELSE LET tag == cy.active
             len == Len(cy.layouts)
             indices == or_insert(cy.indices, tag)
             index == indices[tag]
             new == IF dir = "Forward"
                    THEN IF index + 1 >= len THEN 0 ELSE index + 1
                    ELSE IF wrapping_sub(index, 1) = UsizeMax
                         THEN len - 1 ELSE index - 1
         IN  set_layout([cy EXCEPT !.indices = [indices EXCEPT ![tag] = new]],
                        tag, cy.layouts[new + 1])

\* LayoutCycler::next and LayoutCycler::prev.
next(cy) == cycle(cy, "Forward")
prev(cy) == cycle(cy, "Backward")

----------------------------------------------------------------------------
(* State::schedule *)

\* Each call of State::schedule is a task: a condition and a run closure.
Tasks == 1..MaxTasks

\* idles: the checks inserted with insert_idle and not yet taken for dispatch;
\* batch: the checks of the dispatch under way; called: the tasks schedule
\* was called for; condition: what each condition would return now;
\* runs: how many times each run closure has executed.
NoneScheduled ==
    [idles |-> << >>, batch |-> << >>, called |-> {},
     condition |-> [t \in Tasks |-> FALSE], runs |-> [t \in Tasks |-> 0]]

\* State::schedule: the check is inserted as an idle callback.
schedule(w, t) ==
    [w EXCEPT !.scheduled.idles = Append(@, t)]

\* The idle callback schedule inserted: it evaluates condition, and either
\* schedules itself again or runs run.
schedule_idle_bug_drop(w, t) ==
    \* faulty variant: the check is not registered again when condition is false
    LET holds == w.scheduled.condition[t]
        report == [op |-> "schedule_idle", task |-> t, condition |-> holds]
    IN  IF ~holds
        THEN [w EXCEPT !.last = report]
        ELSE [w EXCEPT !.scheduled.runs[t] = @ + 1, !.last = report]

schedule_idle(w, t) ==
    LET holds == w.scheduled.condition[t]
        report == [op |-> "schedule_idle", task |-> t, condition |-> holds]
    IN  IF ~holds
        THEN [schedule(w, t) EXCEPT !.last = report]
        ELSE [w EXCEPT !.scheduled.runs[t] = @ + 1, !.last = report]

----------------------------------------------------------------------------
(* RenderState, ScreencopyCommitState, RenderSurface *)

Idle == [tag |-> "Idle"]
Scheduled(token) == [tag |-> "Scheduled", token |-> token]
WaitingForVblank(dirty) == [tag |-> "WaitingForVblank", dirty |-> dirty]

ScreencopyCommitStateDefault ==
    [primary_plane_swapchain |-> 0, primary_plane_element |-> 0, cursor |-> 0]

\* PendingGammaChange, and RenderSurface::previous_gamma when it is None.
PendingGammaIdle == [tag |-> "Idle"]
PendingGammaRestore == [tag |-> "Restore"]
PendingGammaChange(gamma) == [tag |-> "Change", gamma |-> gamma]
NoGamma == [tag |-> "None"]

\* The RenderSurface connector_connected builds.  queued and calls are history
\* fields: frames this surface queued whose vblank on_vblank has not processed,
\* and schedule_render calls received since render_state last changed its variant.
NewRenderSurface ==
    [ render_state |-> Idle,
      screencopy_commit_state |-> ScreencopyCommitStateDefault,
      previous_gamma |-> NoGamma,
      pending_gamma_change |-> PendingGammaIdle,
      queued |-> 0,
      calls |-> 0 ]

\* History of a surface at its removal: whether its render state, its capture
\* commit counters and its gamma state had all left the values
\* connector_connected sets.
NotDefault(surface) ==
    /\ surface.render_state # Idle
    /\ surface.screencopy_commit_state # ScreencopyCommitStateDefault
    /\ surface.previous_gamma # NoGamma

\* OutputState::powered of a new Output.
DefaultPowered == TRUE

----------------------------------------------------------------------------
(* The world record *)

W ==
    [ backend |-> backend, backends |-> backends, scanner |-> scanner,
      surfaces |-> surfaces, outputs |-> outputs, outData |-> outData,
      nextOut |-> nextOut, powered |-> powered, screencopy |-> screencopy,
      lock_state |-> lock_state, idles |-> idles, batch |-> batch,
      sync_sources |-> sync_sources, hw |-> hw, devList |-> devList,
      vblanks |-> vblanks, commits |-> commits,
      output_render_scheduled |-> output_render_scheduled,
      gpu_nodes |-> gpu_nodes, drm_sources |-> drm_sources,
      registration |-> registration, mapped |-> mapped, session |-> session,
      torn |-> torn, mode_state |-> mode_state, scheduled |-> scheduled,
      client |-> client, cycler |-> cycler,
      panicked |-> panicked, last |-> last ]

Install(w) ==
    /\ backend' = w.backend
    /\ backends' = w.backends
    /\ scanner' = w.scanner
    /\ surfaces' = w.surfaces
    /\ outputs' = w.outputs
    /\ outData' = w.outData
    /\ nextOut' = w.nextOut
    /\ powered' = w.powered
    /\ screencopy' = w.screencopy
    /\ lock_state' = w.lock_state
    /\ idles' = w.idles
    /\ batch' = w.batch
    /\ sync_sources' = w.sync_sources
    /\ hw' = w.hw
    /\ devList' = w.devList
    /\ vblanks' = w.vblanks
    /\ commits' = w.commits
    /\ output_render_scheduled' = w.output_render_scheduled
    /\ gpu_nodes' = w.gpu_nodes
    /\ drm_sources' = w.drm_sources
    /\ registration' = w.registration
    /\ mapped' = w.mapped
    /\ session' = w.session
    /\ torn' = w.torn
    /\ mode_state' = w.mode_state
    /\ scheduled' = w.scheduled
    /\ client' = w.client
    /\ cycler' = w.cycler
    /\ panicked' = w.panicked
    /\ last' = w.last

Min(a, b) == IF a < b THEN a ELSE b

SeqToSet(s) == {s[i] : i \in 1..Len(s)}

\* The callbacks of s without the one carrying token t.
RECURSIVE Without(_, _)
Without(s, t) ==
    IF s = << >> THEN << >>
    ELSE IF Head(s).token = t THEN Without(Tail(s), t)
    ELSE << Head(s) >> \o Without(Tail(s), t)

\* The idle callbacks the event loop still holds.
Pending(w) == SeqToSet(w.idles) \cup SeqToSet(w.batch)

PendingTokens(w) == {cb.token : cb \in Pending(w)}

\* LoopHandle::insert_idle: a new callback at the back of the idle list; its
\* Idle token is identified by a number no pending callback carries.
FreshToken(w) ==
    CHOOSE t \in 1..(MaxIdles + 1) :
        /\ t \notin PendingTokens(w)
        /\ \A u \in 1..(t - 1) : u \in PendingTokens(w)

insert_idle(w, o) ==
    [w EXCEPT !.idles = Append(@, [token |-> FreshToken(w), output |-> o])]

\* Idle::cancel: the callback will not be run.
cancel(w, t) ==
    [w EXCEPT !.idles = Without(@, t), !.batch = Without(@, t)]

----------------------------------------------------------------------------
(* Surface lookup *)

\* render_surface_for_output: the surface at the output's (device_id, crtc).
HasKey(w, o) == w.outData[o] # NoData

KeyOf(w, o) == << w.outData[o].device_id, w.outData[o].crtc >>

render_surface_for_output(w, o) ==
    IF HasKey(w, o) /\ w.outData[o].device_id \in w.backends
    THEN w.surfaces[KeyOf(w, o)]
    ELSE NoSurface

\* The render state of the output's surface, NoSurface when it has none.
RenderStateOf(w, o) ==
    IF render_surface_for_output(w, o) = NoSurface THEN NoSurface
    ELSE render_surface_for_output(w, o).render_state

\* Assignment to surface.render_state; the calls history restarts when the
\* variant changes.
SetRenderState(w, k, rs) ==
    [w EXCEPT !.surfaces[k].render_state = rs,
              !.surfaces[k].calls =
                  IF rs.tag = w.surfaces[k].render_state.tag THEN @ ELSE 0]

----------------------------------------------------------------------------
(* Udev::schedule_render *)

schedule_render_bug_waiting(w, o) ==
    \* faulty variant: a render is registered also while waiting for vblank
    LET surface == render_surface_for_output(w, o)
        k == KeyOf(w, o)
    IN  IF surface = NoSurface THEN w
        ELSE IF surface.render_state.tag = "Scheduled" THEN w
        ELSE SetRenderState(insert_idle(w, o), k, Scheduled(FreshToken(w)))

schedule_render_bug_twice(w, o) ==
    \* faulty variant: a second call while Scheduled registers a second callback
    LET surface == render_surface_for_output(w, o)
        k == KeyOf(w, o)
    IN  IF surface = NoSurface THEN w
        ELSE IF surface.render_state.tag = "WaitingForVblank"
        THEN SetRenderState(w, k, WaitingForVblank(TRUE))
        ELSE SetRenderState(insert_idle(w, o), k, Scheduled(FreshToken(w)))

schedule_render_code(w, o) ==
    LET surface == render_surface_for_output(w, o)
        k == KeyOf(w, o)
    IN  IF surface = NoSurface THEN w
        ELSE CASE surface.render_state.tag = "Idle" ->
                    SetRenderState(insert_idle(w, o), k, Scheduled(FreshToken(w)))
               [] surface.render_state.tag = "Scheduled" -> w
               [] surface.render_state.tag = "WaitingForVblank" ->
                    SetRenderState(w, k, WaitingForVblank(TRUE))

\* schedule_render with the history of the call: calls counts the calls that
\* found the surface already in its current variant.
schedule_render(w, o) ==
    LET surface == render_surface_for_output(w, o)
        k == KeyOf(w, o)
        w1 == schedule_render_code(w, o)
    IN  IF surface = NoSurface THEN w1
        ELSE IF w1.surfaces[k].render_state.tag = surface.render_state.tag
        THEN [w1 EXCEPT !.surfaces[k].calls = Min(surface.calls + 1, MaxCalls)]
        ELSE w1

----------------------------------------------------------------------------
(* Udev::set_output_powered *)

set_output_powered_bug_nocancel(w, o, on) ==
    \* faulty variant: power-off resets the state and forgets to cancel the token
    LET k == KeyOf(w, o)
    IN  IF w.outData[o].device_id \notin w.backends THEN w
        ELSE IF on THEN [w EXCEPT !.powered[o] = TRUE]
        ELSE IF w.surfaces[k] = NoSurface
        THEN [w EXCEPT !.powered[o] = FALSE, !.panicked = "unwrap_surface"]
        ELSE SetRenderState([w EXCEPT !.powered[o] = FALSE], k, Idle)

set_output_powered(w, o, on) ==
    LET k == KeyOf(w, o)
        w1 == [w EXCEPT !.powered[o] = FALSE]
    IN  IF w.outData[o].device_id \notin w.backends THEN w
        ELSE IF on THEN [w EXCEPT !.powered[o] = TRUE]
        ELSE IF w.surfaces[k] = NoSurface
        THEN [w1 EXCEPT !.panicked = "unwrap_surface"]
        ELSE LET rs == w.surfaces[k].render_state
                 w2 == SetRenderState(w1, k, Idle)
             IN  IF rs.tag = "Scheduled" THEN cancel(w2, rs.token) ELSE w2

----------------------------------------------------------------------------
(* handle_pending_screencopy (udev) *)

\* DamageBag::damage_since / Element::damage_since as the render pass uses
\* them: no damage when the stored commit is the current one, some damage (or
\* None, which the caller turns into the whole output) otherwise.
damage_since(current, stored, what) ==
    IF stored = current THEN {} ELSE {what}

\* The commit state after the damage computation of a frame: the plane that
\* carries the primary element, and the cursor plane when the frame has one.
CommitStateAfterDamage(st, cur, fr) ==
    LET st1 == IF fr.primary = "Swapchain"
               THEN [st EXCEPT !.primary_plane_swapchain = cur.primary_plane_swapchain]
               ELSE [st EXCEPT !.primary_plane_element = cur.primary_plane_element]
    IN  IF fr.cursor THEN [st1 EXCEPT !.cursor = cur.cursor] ELSE st1

\* The damage a with_damage capture is sent for a frame.
ComputedDamage(st, cur, fr) ==
    LET primary_damage ==
            IF fr.primary = "Swapchain"
            THEN damage_since(cur.primary_plane_swapchain,
                              st.primary_plane_swapchain, "primary")
            ELSE damage_since(cur.primary_plane_element,
                              st.primary_plane_element, "primary")
        cursor_damage ==
            IF fr.cursor THEN damage_since(cur.cursor, st.cursor, "cursor") ELSE {}
        damage == primary_damage \cup cursor_damage
    IN  IF damage = {} /\ ~fr.is_empty /\ fr.cursor
        THEN {"cursor_geometry"}
        ELSE damage

\* Whether the buffer passes the format and size checks of its copy path.
BufferAccepted(sc) ==
    CASE sc.buffer = "dmabuf" -> sc.format_ok /\ sc.size_ok
      [] sc.buffer = "shm" -> sc.format_ok /\ sc.size_ok
      [] OTHER -> FALSE

\* The report of a capture no render pass touched.
NoCaptureReport ==
    [taken |-> FALSE, request |-> NoCapture, with_damage |-> FALSE, damage |-> {},
     damage_sent |-> FALSE, outcome |-> "none", commit_changed |-> FALSE]

CaptureReport(sc, st, st1, damage, sent, outcome) ==
    [taken |-> TRUE, request |-> sc, with_damage |-> sc.with_damage,
     damage |-> damage, damage_sent |-> sent, outcome |-> outcome,
     commit_changed |-> st1 # st]

\* The last part of the handler: copy into the buffer and complete.
\* outcome: "dropped" (mismatch, nothing sent), "copy_failed" (error logged),
\* "submitted" (submit sent in the pass), "deferred" (submit left to the one-shot
\* source on the sync fd), "lost" (the source could not be inserted).
CopyOutcome(sc, fr) ==
    IF sc.buffer = "dmabuf" /\ ~BufferAccepted(sc) THEN "dropped"
    ELSE IF ~BufferAccepted(sc) THEN "copy_failed"
    ELSE CASE fr.copy = "err" -> "copy_failed"
           [] fr.copy = "reached" -> "submitted"
           [] fr.copy = "no_fd" -> "submitted"
           [] fr.copy = "pending" -> "deferred"
           [] fr.copy = "insert_err" -> "lost"

handle_pending_screencopy_bug_empty(w, o, k, fr) ==
    \* faulty variant: a with_damage capture is completed although nothing is damaged
    LET sc == w.screencopy[o]
        st == w.surfaces[k].screencopy_commit_state
        cur == w.commits[k]
        damage == ComputedDamage(st, cur, fr)
        st1 == IF sc.with_damage THEN CommitStateAfterDamage(st, cur, fr) ELSE st
        outcome == CopyOutcome(sc, fr)
        w1 == [w EXCEPT !.screencopy[o] = NoCapture,
                        !.surfaces[k].screencopy_commit_state = st1,
                        !.sync_sources = IF outcome = "deferred" THEN @ + 1 ELSE @]
    IN  IF sc = NoCapture THEN [w EXCEPT !.last = NoCaptureReport]
        ELSE [w1 EXCEPT !.last =
                  CaptureReport(sc, st, st1, damage, sc.with_damage, outcome)]

handle_pending_screencopy_bug_keep(w, o, k, fr) ==
    \* faulty variant: a capture with a mismatched buffer is put back on the output
    LET sc == w.screencopy[o]
        st == w.surfaces[k].screencopy_commit_state
        cur == w.commits[k]
        damage == ComputedDamage(st, cur, fr)
        st1 == IF sc.with_damage THEN CommitStateAfterDamage(st, cur, fr) ELSE st
        outcome == CopyOutcome(sc, fr)
        w1 == [w EXCEPT !.screencopy[o] =
                            IF outcome = "dropped" THEN sc ELSE NoCapture,
                        !.surfaces[k].screencopy_commit_state = st1,
                        !.sync_sources = IF outcome = "deferred" THEN @ + 1 ELSE @]
    IN  IF sc = NoCapture THEN [w EXCEPT !.last = NoCaptureReport]
        ELSE IF sc.with_damage /\ fr.is_empty
        THEN [w EXCEPT !.last = CaptureReport(sc, st, st, {}, FALSE, "reattached")]
        ELSE IF sc.with_damage /\ damage = {}
        THEN [w EXCEPT !.surfaces[k].screencopy_commit_state = st1,
                       !.last = CaptureReport(sc, st, st1, {}, FALSE, "reattached")]
        ELSE [w1 EXCEPT !.last =
                  CaptureReport(sc, st, st1, damage, sc.with_damage, outcome)]

handle_pending_screencopy_bug_resubmit(w, o, k, fr) ==
    \* faulty variant: a completed capture stays attached and is served again
    LET sc == w.screencopy[o]
        st == w.surfaces[k].screencopy_commit_state
        cur == w.commits[k]
        damage == ComputedDamage(st, cur, fr)
        st1 == IF sc.with_damage THEN CommitStateAfterDamage(st, cur, fr) ELSE st
        outcome == CopyOutcome(sc, fr)
        w1 == [w EXCEPT !.surfaces[k].screencopy_commit_state = st1,
                        !.sync_sources = IF outcome = "deferred" THEN @ + 1 ELSE @]
    IN  IF sc = NoCapture THEN [w EXCEPT !.last = NoCaptureReport]
        ELSE IF sc.with_damage /\ fr.is_empty
        THEN [w EXCEPT !.last = CaptureReport(sc, st, st, {}, FALSE, "reattached")]
        ELSE IF sc.with_damage /\ damage = {}
        THEN [w EXCEPT !.surfaces[k].screencopy_commit_state = st1,
                       !.last = CaptureReport(sc, st, st1, {}, FALSE, "reattached")]
        ELSE [w1 EXCEPT !.last =
                  CaptureReport(sc, st, st1, damage, sc.with_damage, outcome)]

\* The handler, run inside a render pass on the frame fr just rendered for
\* output o on the surface at k.  It leaves its report in w.last for the pass.
handle_pending_screencopy(w, o, k, fr) ==
    LET sc == w.screencopy[o]
        st == w.surfaces[k].screencopy_commit_state
        cur == w.commits[k]
        damage == ComputedDamage(st, cur, fr)
        st1 == IF sc.with_damage THEN CommitStateAfterDamage(st, cur, fr) ELSE st
        outcome == CopyOutcome(sc, fr)
        w1 == [w EXCEPT !.screencopy[o] = NoCapture,
                        !.surfaces[k].screencopy_commit_state = st1,
                        !.sync_sources = IF outcome = "deferred" THEN @ + 1 ELSE @]
    IN  IF sc = NoCapture THEN [w EXCEPT !.last = NoCaptureReport]
        ELSE IF sc.with_damage /\ fr.is_empty
        THEN [w EXCEPT !.last = CaptureReport(sc, st, st, {}, FALSE, "reattached")]
        ELSE IF sc.with_damage /\ damage = {}
        THEN [w EXCEPT !.surfaces[k].screencopy_commit_state = st1,
                       !.last = CaptureReport(sc, st, st1, {}, FALSE, "reattached")]
        ELSE [w1 EXCEPT !.last =
                  CaptureReport(sc, st, st1, damage, sc.with_damage, outcome)]

----------------------------------------------------------------------------
(* handle_pending_screencopy: the copy into the client's buffer *)

\* Rectangles of pixels; the output is MaxSide x MaxSide.
Rect(x, y, w, h) == [x |-> x, y |-> y, w |-> w, h |-> h]

untransformed_output_size == [w |-> MaxSide, h |-> MaxSide]

OutputRect == Rect(0, 0, untransformed_output_size.w, untransformed_output_size.h)

PixelsOf(r) == (r.x..(r.x + r.w - 1)) \X (r.y..(r.y + r.h - 1))

\* The regions a capture may ask for: the non-empty rectangles in the output.
Regions ==
    {r \in [x : 0..(MaxSide - 1), y : 0..(MaxSide - 1),
            w : 1..MaxSide, h : 1..MaxSide] :
        r.x + r.w <= MaxSide /\ r.y + r.h <= MaxSide}

\* A capture as the copy reads it: the client's buffer (its type, pixel format
\* and size), the physical region asked for and the overlay_cursor flag.
CopyRequests ==
    [buffer : {"dmabuf", "shm", "other"}, format : {"Argb8888", "Xrgb8888"},
     width : 1..MaxSide, height : 1..MaxSide, region : Regions,
     overlay_cursor : BOOLEAN]

\* The rendered frame as the copy reads it: the pixel the cursor element
\* covers, none when the frame has no cursor element.
NoCursor == << -1, -1 >>

CopyCursors == PixelsOf(OutputRect) \cup {NoCursor}

\* RenderFrameResult::blit_frame_result into the bound target: the pixels of
\* rect, each taken from the same pixel of the frame; the elements whose ids
\* are in the filter are left out (excluded: the filter holds cursor_ids).
blit_frame_result(cursor, rect, excluded) ==
    [p \in PixelsOf(rect) |->
        [src |-> p, cursor |-> ~excluded /\ cursor = p]]

\* renderer.blit_from(offscreen, src, dst) and copy_framebuffer(src): the
\* pixels of src, moved to the origin of the buffer.
blit_from(offscreen, src) ==
    [p \in PixelsOf(Rect(0, 0, src.w, src.h)) |->
        offscreen[<< src.x + p[1], src.y + p[2] >>]]

\* The format and size checks of the two copy paths.
CopyAccepted(rq) ==
    /\ rq.buffer \in {"dmabuf", "shm"}
    /\ rq.format = "Argb8888"
    /\ rq.width = rq.region.w /\ rq.height = rq.region.h

\* The copy of one capture from the frame just rendered.  path: "direct" (the
\* frame is blitted straight into the dmabuf), "offscreen" (the whole output
\* is blitted into an offscreen buffer and the region copied from it) or
\* "none"; offscreen: the size of the offscreen buffer; image: the pixels
\* written into the client's buffer.
copy_to_buffer_bug_whole(rq, cursor) ==
    \* faulty variant: the offscreen copy starts at the origin of the output
    LET report(path, size, image) ==
            [op |-> "screencopy_copy", request |-> rq, cursor_at |-> cursor,
             path |-> path, offscreen |-> size, image |-> image]
        all == blit_frame_result(cursor, OutputRect, ~rq.overlay_cursor)
    IN  IF ~CopyAccepted(rq) THEN report("none", "none", << >>)
        ELSE IF rq.buffer = "dmabuf" /\ rq.region = OutputRect
        THEN report("direct", "none", blit_frame_result(cursor, rq.region, TRUE))
        ELSE report("offscreen", untransformed_output_size,
                    blit_from(all, Rect(0, 0, rq.region.w, rq.region.h)))

copy_to_buffer(rq, cursor) ==
    LET report(path, size, image) ==
            [op |-> "screencopy_copy", request |-> rq, cursor_at |-> cursor,
             path |-> path, offscreen |-> size, image |-> image]
        all == blit_frame_result(cursor, OutputRect, ~rq.overlay_cursor)
    IN  IF ~CopyAccepted(rq) THEN report("none", "none", << >>)
        ELSE IF rq.buffer = "dmabuf" /\ rq.region = OutputRect
        THEN report("direct", "none", blit_frame_result(cursor, rq.region, TRUE))
        ELSE report("offscreen", untransformed_output_size,
                    blit_from(all, rq.region))

----------------------------------------------------------------------------
(* Udev::render_surface: the deferred render callback *)

RenderReport(w, o, pass, built, queued, capture) ==
    [op |-> "render_surface", output |-> o, pass |-> pass, built |-> built,
     queued |-> queued, powered |-> w.powered[o], registered |-> o \in w.outputs,
     transaction |-> FALSE, waited |-> FALSE, capture |-> capture]

\* render_frame advances the damage trackers' commit counters by fr.adv.
AdvanceCommits(w, k, fr) ==
    [w EXCEPT !.commits[k] =
        [primary_plane_swapchain |-> @.primary_plane_swapchain + fr.adv.swapchain,
         primary_plane_element |-> @.primary_plane_element + fr.adv.element,
         cursor |-> @.cursor + fr.adv.cursor]]

\* compositor.queue_frame succeeded: one more page-flip event will arrive.
queue_frame(w, k) ==
    [w EXCEPT !.vblanks[k] = @ + 1, !.surfaces[k].queued = @ + 1]

\* How a pass on frame fr ends: rendering or queueing reports the loss of the
\* rendering context, render_frame fails, the frame is empty, queue_frame
\* fails, or the frame is queued.
PassOf(fr) ==
    IF fr.result = "context_lost" THEN "context_lost"
    ELSE IF fr.result = "err" THEN "render_err"
    ELSE IF fr.is_empty THEN "empty"
    ELSE IF ~fr.queue_ok THEN "queue_err"
    ELSE "queued"

\* After render_frame the pass calls element.sync.wait() when the primary
\* plane element of the frame is a swapchain buffer: the handler blocks until
\* the GPU has reached the frame's sync point.
SyncWait(fr) == fr.primary = "Swapchain"

\* The pass proper, once the output is known to be mapped and powered and the
\* assertion on the render state has passed.
RenderPass_bug_stuck(w, o, k, fr) ==
    \* faulty variant: a failed pass leaves the render state as it found it
    IF PassOf(fr) \in {"render_err", "context_lost"}
    THEN [w EXCEPT
              !.last = RenderReport(w, o, PassOf(fr), TRUE, FALSE, NoCaptureReport)]
    ELSE LET w1 == AdvanceCommits(w, k, fr)
             w2 == IF w1.lock_state = "unlocked"
                   THEN handle_pending_screencopy(w1, o, k, fr)
                   ELSE [w1 EXCEPT !.last = NoCaptureReport]
             capture == w2.last
         IN  IF PassOf(fr) = "queued"
             THEN [SetRenderState(queue_frame(w2, k), k, WaitingForVblank(FALSE)) EXCEPT
                      !.last = [RenderReport(w, o, "queued", TRUE, TRUE, capture)
                                    EXCEPT !.waited = SyncWait(fr)]]
             ELSE [w2 EXCEPT
                      !.last = [RenderReport(w, o, PassOf(fr), TRUE, FALSE, capture)
                                    EXCEPT !.waited = SyncWait(fr)]]

RenderPass_bug_dirty(w, o, k, fr) ==
    \* faulty variant: a queued frame leaves the surface waiting with dirty set
    IF PassOf(fr) \in {"render_err", "context_lost"}
    THEN [SetRenderState(w, k, Idle) EXCEPT
              !.last = RenderReport(w, o, PassOf(fr), TRUE, FALSE, NoCaptureReport)]
    ELSE LET w1 == AdvanceCommits(w, k, fr)
             w2 == IF w1.lock_state = "unlocked"
                   THEN handle_pending_screencopy(w1, o, k, fr)
                   ELSE [w1 EXCEPT !.last = NoCaptureReport]
             capture == w2.last
         IN  IF PassOf(fr) = "queued"
             THEN [SetRenderState(queue_frame(w2, k), k, WaitingForVblank(TRUE)) EXCEPT
                      !.last = [RenderReport(w, o, "queued", TRUE, TRUE, capture)
                                    EXCEPT !.waited = SyncWait(fr)]]
             ELSE [SetRenderState(w2, k, Idle) EXCEPT
                      !.last = [RenderReport(w, o, PassOf(fr), TRUE, FALSE, capture)
                                    EXCEPT !.waited = SyncWait(fr)]]

RenderPass_bug_locked(w, o, k, fr) ==
    \* faulty variant: the pending capture is handled whatever the lock state
    IF PassOf(fr) \in {"render_err", "context_lost"}
    THEN [SetRenderState(w, k, Idle) EXCEPT
              !.last = RenderReport(w, o, PassOf(fr), TRUE, FALSE, NoCaptureReport)]
    ELSE LET w1 == AdvanceCommits(w, k, fr)
             w2 == handle_pending_screencopy(w1, o, k, fr)
             capture == w2.last
         IN  IF PassOf(fr) = "queued"
             THEN [SetRenderState(queue_frame(w2, k), k, WaitingForVblank(FALSE)) EXCEPT
                      !.last = [RenderReport(w, o, "queued", TRUE, TRUE, capture)
                                    EXCEPT !.waited = SyncWait(fr)]]
             ELSE [SetRenderState(w2, k, Idle) EXCEPT
                      !.last = [RenderReport(w, o, PassOf(fr), TRUE, FALSE, capture)
                                    EXCEPT !.waited = SyncWait(fr)]]

RenderPass(w, o, k, fr) ==
    IF PassOf(fr) \in {"render_err", "context_lost"}
    THEN [SetRenderState(w, k, Idle) EXCEPT
              !.last = RenderReport(w, o, PassOf(fr), TRUE, FALSE, NoCaptureReport)]
    ELSE LET w1 == AdvanceCommits(w, k, fr)
             w2 == IF w1.lock_state = "unlocked"
                   THEN handle_pending_screencopy(w1, o, k, fr)
                   ELSE [w1 EXCEPT !.last = NoCaptureReport]
             capture == w2.last
         IN  IF PassOf(fr) = "queued"
             THEN [SetRenderState(queue_frame(w2, k), k, WaitingForVblank(FALSE)) EXCEPT
                      !.last = [RenderReport(w, o, "queued", TRUE, TRUE, capture)
                                    EXCEPT !.waited = SyncWait(fr)]]
             ELSE [SetRenderState(w2, k, Idle) EXCEPT
                      !.last = [RenderReport(w, o, PassOf(fr), TRUE, FALSE, capture)
                                    EXCEPT !.waited = SyncWait(fr)]]

render_surface_bug_unpowered(w, o, fr) ==
    \* faulty variant: the powered check is missing
    LET surface == render_surface_for_output(w, o)
        k == KeyOf(w, o)
        w1 == RenderPass(w, o, k, fr)
    IN  IF surface = NoSurface
        THEN [w EXCEPT !.last =
                  RenderReport(w, o, "no_surface", FALSE, FALSE, NoCaptureReport)]
        ELSE IF o \notin w.outputs
        THEN [SetRenderState(w, k, Idle) EXCEPT !.last =
                  RenderReport(w, o, "unmapped", FALSE, FALSE, NoCaptureReport)]
        ELSE IF surface.render_state.tag # "Scheduled"
        THEN [w EXCEPT !.panicked = "assert_render_state", !.last =
                  RenderReport(w, o, "panic", FALSE, FALSE, NoCaptureReport)]
        ELSE IF fr.tx_ready
        THEN [schedule_render(w1, o) EXCEPT
                  !.last = [w1.last EXCEPT !.transaction = TRUE]]
        ELSE w1

render_surface_bug_once(w, o, fr) ==
    \* faulty variant: no render is scheduled after a pass that took a ready
    \* layout transaction
    LET surface == render_surface_for_output(w, o)
        k == KeyOf(w, o)
        w1 == RenderPass(w, o, k, fr)
    IN  IF surface = NoSurface
        THEN [w EXCEPT !.last =
                  RenderReport(w, o, "no_surface", FALSE, FALSE, NoCaptureReport)]
        ELSE IF o \notin w.outputs
        THEN [SetRenderState(w, k, Idle) EXCEPT !.last =
                  RenderReport(w, o, "unmapped", FALSE, FALSE, NoCaptureReport)]
        ELSE IF ~w.powered[o]
        THEN [SetRenderState(w, k, Idle) EXCEPT !.last =
                  RenderReport(w, o, "off", FALSE, FALSE, NoCaptureReport)]
        ELSE IF surface.render_state.tag # "Scheduled"
        THEN [w EXCEPT !.panicked = "assert_render_state", !.last =
                  RenderReport(w, o, "panic", FALSE, FALSE, NoCaptureReport)]
        ELSE IF fr.tx_ready
        THEN [w1 EXCEPT !.last = [w1.last EXCEPT !.transaction = TRUE]]
        ELSE w1

render_surface(w, o, fr) ==
    LET surface == render_surface_for_output(w, o)
        k == KeyOf(w, o)
        w1 == RenderPass(w, o, k, fr)
    IN  IF surface = NoSurface
        THEN [w EXCEPT !.last =
                  RenderReport(w, o, "no_surface", FALSE, FALSE, NoCaptureReport)]
        ELSE IF o \notin w.outputs
        THEN [SetRenderState(w, k, Idle) EXCEPT !.last =
                  RenderReport(w, o, "unmapped", FALSE, FALSE, NoCaptureReport)]
        ELSE IF ~w.powered[o]
        THEN [SetRenderState(w, k, Idle) EXCEPT !.last =
                  RenderReport(w, o, "off", FALSE, FALSE, NoCaptureReport)]
        ELSE IF surface.render_state.tag # "Scheduled"
        THEN [w EXCEPT !.panicked = "assert_render_state", !.last =
                  RenderReport(w, o, "panic", FALSE, FALSE, NoCaptureReport)]
        ELSE IF fr.tx_ready
        THEN [schedule_render(w1, o) EXCEPT
                  !.last = [w1.last EXCEPT !.transaction = TRUE]]
        ELSE w1

----------------------------------------------------------------------------
(* Udev::on_vblank *)

\* The registered Output bound to (node, crtc), if any.
OutputsAt(w, n, c) ==
    {o \in w.outputs : w.outData[o].device_id = n /\ w.outData[o].crtc = c}

VblankReport(n, c, found, dirty, coalesced, registered, frame_callbacks, presented) ==
    [op |-> "on_vblank", node |-> n, crtc |-> c, found |-> found, dirty |-> dirty,
     coalesced |-> coalesced, registered |-> registered,
     frame_callbacks |-> frame_callbacks, presented |-> presented]

\* compositor.frame_submitted retires the frame whose vblank this is.
frame_submitted(w, k) ==
    [w EXCEPT !.surfaces[k].queued = IF @ > 0 THEN @ - 1 ELSE 0]

\* frame_submitted hands back the presentation feedback queued with the frame
\* it retires: only when it succeeds, and only when a frame was pending.
FeedbackOf(w, k, sub) ==
    sub = "ok" /\ w.surfaces[k].queued > 0

\* The part of on_vblank after frame_submitted: take the render state and act
\* on what was found.  presented: feedback.presented was called.
VblankReschedule_bug_ignore(w, n, c, o, presented) ==
    \* faulty variant: a state other than WaitingForVblank is treated like a
    \* clean vblank, with frame callbacks and no schedule_render
    LET k == << n, c >>
        rs == w.surfaces[k].render_state
        coalesced == w.surfaces[k].calls
        w1 == SetRenderState(w, k, Idle)
        w2 == schedule_render(w1, o)
        registered == Cardinality(Pending(w2)) - Cardinality(Pending(w))
    IN  IF rs.tag = "WaitingForVblank" /\ rs.dirty
        THEN [w2 EXCEPT !.last =
                  VblankReport(n, c, rs.tag, TRUE, coalesced, registered, FALSE,
                               presented)]
        ELSE [w1 EXCEPT !.last =
                  VblankReport(n, c, rs.tag, FALSE, coalesced, 0, TRUE, presented)]

VblankReschedule_bug_clean(w, n, c, o, presented) ==
    \* faulty variant: the dirty flag is dropped, a dirty vblank ends like a
    \* clean one
    LET k == << n, c >>
        rs == w.surfaces[k].render_state
        coalesced == w.surfaces[k].calls
        w1 == SetRenderState(w, k, Idle)
        w2 == schedule_render(w1, o)
        registered == Cardinality(Pending(w2)) - Cardinality(Pending(w))
    IN  IF rs.tag # "WaitingForVblank"
        THEN [w2 EXCEPT !.last =
                  VblankReport(n, c, rs.tag, FALSE, coalesced, registered, FALSE,
                               presented)]
        ELSE [w1 EXCEPT !.last =
                  VblankReport(n, c, rs.tag, rs.dirty, coalesced, 0, TRUE, presented)]

VblankReschedule(w, n, c, o, presented) ==
    LET k == << n, c >>
        rs == w.surfaces[k].render_state
        coalesced == w.surfaces[k].calls
        w1 == SetRenderState(w, k, Idle)
        w2 == schedule_render(w1, o)
        registered == Cardinality(Pending(w2)) - Cardinality(Pending(w))
    IN  IF rs.tag # "WaitingForVblank"
        THEN [w2 EXCEPT !.last =
                  VblankReport(n, c, rs.tag, FALSE, coalesced, registered, FALSE,
                               presented)]
        ELSE IF rs.dirty
        THEN [w2 EXCEPT !.last =
                  VblankReport(n, c, rs.tag, TRUE, coalesced, registered, FALSE,
                               presented)]
        ELSE [w1 EXCEPT !.last =
                  VblankReport(n, c, rs.tag, FALSE, coalesced, 0, TRUE, presented)]

on_vblank_bug_present(w, n, c, sub) ==
    \* faulty variant: presented is sent whether or not frame_submitted
    \* handed back a feedback
    LET k == << n, c >>
        w0 == [w EXCEPT !.last =
                   VblankReport(n, c, "none", FALSE, 0, 0, FALSE, FALSE)]
    IN  IF n \notin w.backends \/ w.surfaces[k] = NoSurface THEN w0
        ELSE IF OutputsAt(w, n, c) = {} THEN w0
        ELSE IF sub = "context_lost"
        THEN [w0 EXCEPT !.panicked = "rendering_loop_lost"]
        ELSE VblankReschedule(frame_submitted(w, k), n, c,
                              CHOOSE o \in OutputsAt(w, n, c) : TRUE, TRUE)

on_vblank(w, n, c, sub) ==
    LET k == << n, c >>
        w0 == [w EXCEPT !.last =
                   VblankReport(n, c, "none", FALSE, 0, 0, FALSE, FALSE)]
    IN  IF n \notin w.backends \/ w.surfaces[k] = NoSurface THEN w0
        ELSE IF OutputsAt(w, n, c) = {} THEN w0
        ELSE IF sub = "context_lost"
        THEN [w0 EXCEPT !.panicked = "rendering_loop_lost"]
        ELSE VblankReschedule(frame_submitted(w, k), n, c,
                              CHOOSE o \in OutputsAt(w, n, c) : TRUE,
                              FeedbackOf(w, k, sub))

----------------------------------------------------------------------------
(* Connector and device hotplug *)

CrtcOrder == << "crtc0", "crtc1" >>

\* Pinnacle::remove_output: the Output leaves pinnacle.outputs and the space.
remove_output(w, o) ==
    [w EXCEPT !.outputs = @ \ {o}, !.mapped = @ \ {o}]

\* The modes of the model: the connector advertises ConnectorModes, the first
\* of them preferred; any other mode is one set_output_mode has to create.
Modes == {"m0", "m1", "m2"}

ConnectorModes == << "m0", "m1" >>

PreferredMode == "m0"

NoMode == "none"

NoModes == [current_mode |-> NoMode, modes |-> << >>]

ModeIn(modes, mode) == \E i \in 1..Len(modes) : modes[i] = mode

\* Pinnacle::change_output_state given a mode, on an Output whose modes are
\* the connector's: the mode becomes current and is pushed onto the list.
change_output_state(mode) ==
    [current_mode |-> mode, modes |-> Append(ConnectorModes, mode)]

\* res: "ok", "surface_err" (drm.create_surface failed) or "compositor_err"
\* (DrmCompositor::new failed).
\* A new DrmCompositor starts its damage trackers at the default commit; the
\* Output is mapped into the space by change_output_state at the end.
connector_connected_bug_stale(w, n, c, res) ==
    \* faulty variant: the new surface takes over the counters the trackers of
    \* the pipeline had reached
    LET o == w.nextOut
        w1 == [w EXCEPT !.outputs = @ \cup {o},
                        !.outData[o] = [device_id |-> n, crtc |-> c],
                        !.powered[o] = DefaultPowered,
                        !.mode_state[o] = [current_mode |-> NoMode,
                                           modes |-> ConnectorModes],
                        !.nextOut = @ + 1]
    IN  IF n \notin w.backends THEN w
        ELSE IF res = "surface_err" THEN w
        ELSE IF \E p \in w.outputs : w.outData[p].crtc = c THEN w
        ELSE IF res = "compositor_err" THEN w1
        ELSE [w1 EXCEPT !.surfaces[<< n, c >>] =
                            [NewRenderSurface EXCEPT
                                !.screencopy_commit_state = w.commits[<< n, c >>]],
                        !.commits[<< n, c >>] = ScreencopyCommitStateDefault,
                        !.mode_state[o] = change_output_state(PreferredMode),
                        !.mapped = @ \cup {o}]

connector_connected(w, n, c, res) ==
    LET o == w.nextOut
        w1 == [w EXCEPT !.outputs = @ \cup {o},
                        !.outData[o] = [device_id |-> n, crtc |-> c],
                        !.powered[o] = DefaultPowered,
                        !.mode_state[o] = [current_mode |-> NoMode,
                                           modes |-> ConnectorModes],
                        !.nextOut = @ + 1]
    IN  IF n \notin w.backends THEN w
        ELSE IF res = "surface_err" THEN w
        ELSE IF \E p \in w.outputs : w.outData[p].crtc = c THEN w
        ELSE IF res = "compositor_err" THEN w1
        ELSE [w1 EXCEPT !.surfaces[<< n, c >>] = NewRenderSurface,
                        !.commits[<< n, c >>] = ScreencopyCommitStateDefault,
                        !.mode_state[o] = change_output_state(PreferredMode),
                        !.mapped = @ \cup {o}]

\* Udev::set_output_mode.  ok: compositor.use_mode succeeded.  Without a
\* surface for the output nothing is attempted.
set_output_mode_bug_keep(w, o, mode, ok) ==
    \* faulty variant: the mode becomes current although use_mode failed
    LET surface == render_surface_for_output(w, o)
        ms == w.mode_state[o]
        report == [op |-> "set_output_mode", output |-> o, mode |-> mode,
                   tried |-> surface # NoSurface, ok |-> ok]
    IN  IF surface = NoSurface THEN [w EXCEPT !.last = report]
        ELSE [w EXCEPT !.mode_state[o] =
                           [current_mode |-> mode,
                            modes |-> IF ~ok \/ ModeIn(ms.modes, mode) THEN ms.modes
                                      ELSE Append(ms.modes, mode)],
                       !.last = report]

set_output_mode(w, o, mode, ok) ==
    LET surface == render_surface_for_output(w, o)
        ms == w.mode_state[o]
        report == [op |-> "set_output_mode", output |-> o, mode |-> mode,
                   tried |-> surface # NoSurface, ok |-> ok]
    IN  IF surface = NoSurface \/ ~ok THEN [w EXCEPT !.last = report]
        ELSE [w EXCEPT !.mode_state[o] =
                           [current_mode |-> mode,
                            modes |-> IF ModeIn(ms.modes, mode) THEN ms.modes
                                      ELSE Append(ms.modes, mode)],
                       !.last = report]

\* The surface is dropped with whatever render state it holds: a Scheduled
\* token is dropped, not cancelled.
connector_disconnected(w, n, c) ==
    LET k == << n, c >>
        w1 == [w EXCEPT !.surfaces[k] = NoSurface,
                        !.torn[k] = IF w.surfaces[k] = NoSurface THEN @
                                    ELSE NotDefault(w.surfaces[k])]
    IN  IF n \notin w.backends THEN w
        ELSE IF OutputsAt(w, n, c) = {} THEN w1
        ELSE remove_output(w1, CHOOSE o \in OutputsAt(w, n, c) : TRUE)

RECURSIVE ConnectAll(_, _, _, _, _)
ConnectAll(w, n, order, cs, cres) ==
    IF order = << >> THEN w
    ELSE ConnectAll(IF Head(order) \in cs
                    THEN connector_connected(w, n, Head(order), cres[Head(order)])
                    ELSE w,
                    n, Tail(order), cs, cres)

RECURSIVE DisconnectAll(_, _, _, _)
DisconnectAll(w, n, order, cs) ==
    IF order = << >> THEN w
    ELSE DisconnectAll(IF Head(order) \in cs
                       THEN connector_disconnected(w, n, Head(order))
                       ELSE w,
                       n, Tail(order), cs)

\* scan_ok: whether drm_scanner.scan_connectors succeeded; cres: the outcome of
\* setting up each connector found connected.
device_changed_bug_rescan(w, n, scan_ok, cres) ==
    \* faulty variant: every connector found connected is set up again
    LET connected == w.hw[n]
        disconnected == w.scanner[n] \ w.hw[n]
        w1 == [w EXCEPT !.scanner[n] = w.hw[n]]
        w2 == ConnectAll(w1, n, CrtcOrder, connected, cres)
    IN  IF n \notin w.backends THEN w
        ELSE IF ~scan_ok THEN w
        ELSE DisconnectAll(w2, n, CrtcOrder, disconnected)

device_changed(w, n, scan_ok, cres) ==
    LET connected == w.hw[n] \ w.scanner[n]
        disconnected == w.scanner[n] \ w.hw[n]
        w1 == [w EXCEPT !.scanner[n] = w.hw[n]]
        w2 == ConnectAll(w1, n, CrtcOrder, connected, cres)
    IN  IF n \notin w.backends THEN w
        ELSE IF ~scan_ok THEN w
        ELSE DisconnectAll(w2, n, CrtcOrder, disconnected)

\* LoopHandle::insert_source of a device's DRM notifier: the source is
\* registered under a token no registered source carries.
FreshSource(w) ==
    CHOOSE t \in 1..(MaxSources + 1) :
        /\ t \notin {src.token : src \in w.drm_sources}
        /\ \A u \in 1..(t - 1) : u \in {src.token : src \in w.drm_sources}

insert_source(w, n) ==
    [w EXCEPT !.drm_sources = @ \cup {[node |-> n, token |-> FreshSource(w)]}]

\* LoopHandle::remove of a registration token.
remove_source(w, t) ==
    [w EXCEPT !.drm_sources = {src \in @ : src.token # t}]

\* How device_added ends: at DrmNode::from_dev_id, session.open,
\* DrmDevice::new or GbmDevice::new (Err before anything is registered), at
\* insert_source or EGLDisplay::new (expect: panic), at GpuManager::add_node
\* (Err after the notifier was inserted), or with the device registered.
AddResults ==
    {"ok", "node_err", "open_err", "drm_err", "gbm_err", "source_err", "egl_err",
     "add_node_err"}

device_added(w, n, add, scan_ok, cres) ==
    LET w1 == insert_source(w, n)
        w2 == [w1 EXCEPT !.gpu_nodes = @ \cup {n},
                         !.backends = @ \cup {n},
                         !.registration[n] = FreshSource(w),
                         !.scanner[n] = {},
                         !.surfaces = [k \in Keys |->
                                          IF k[1] = n THEN NoSurface ELSE w.surfaces[k]]]
    IN  IF add \in {"node_err", "open_err", "drm_err", "gbm_err"} THEN w
        ELSE IF add = "source_err" THEN [w EXCEPT !.panicked = "insert_drm_notifier"]
        ELSE IF add = "egl_err" THEN [w1 EXCEPT !.panicked = "create_egl_display"]
        ELSE IF add = "add_node_err" THEN w1
        ELSE device_changed(w2, n, scan_ok, cres)

device_removed(w, n) ==
    LET w1 == DisconnectAll(w, n, CrtcOrder, w.scanner[n])
    IN  IF n \notin w.backends THEN w
        ELSE [remove_source(w1, w.registration[n]) EXCEPT
                  !.backends = @ \ {n},
                  !.gpu_nodes = @ \ {n},
                  !.registration[n] = 0,
                  !.scanner[n] = {},
                  !.surfaces = [k \in Keys |->
                                   IF k[1] = n THEN NoSurface ELSE w1.surfaces[k]],
                  !.vblanks = [k \in Keys |->
                                   IF k[1] = n THEN 0 ELSE w1.vblanks[k]]]

----------------------------------------------------------------------------
(* Gamma, and the session notifier: PauseSession and ActivateSession *)

\* The gamma tables a client sets (Some of previous_gamma).
Gammas == {[tag |-> "Some", lut |-> "lut1"]}

\* The tables of the gamma model: two distinct sets of tables.
GammaTables == Gammas \cup {[tag |-> "Some", lut |-> "lut2"]}

\* Udev::set_gamma: tables (or NoGamma, to restore the default) are applied at
\* once while the session is active and kept as the pending change while it is
\* paused.  ok: whether the hardware took the tables.
set_gamma(w, k, gamma, ok) ==
    IF w.surfaces[k] = NoSurface THEN w
    ELSE IF ~w.session.active
    THEN [w EXCEPT !.surfaces[k].pending_gamma_change =
                       IF gamma = NoGamma THEN PendingGammaRestore
                       ELSE PendingGammaChange(gamma)]
    ELSE [w EXCEPT !.surfaces[k].previous_gamma = IF ok THEN gamma ELSE NoGamma]

\* "Apply pending gammas" of the resume handler, for one surface; ok: whether
\* set_gamma_internal succeeded.
ApplyPendingGamma_bug_retry(surface, ok) ==
    \* faulty variant: a change that failed to apply stays pending
    LET pending == surface.pending_gamma_change
        s1 == [surface EXCEPT !.pending_gamma_change = PendingGammaIdle]
    IN  CASE pending.tag = "Idle" ->
                IF ok THEN s1 ELSE [s1 EXCEPT !.previous_gamma = NoGamma]
          [] pending.tag = "Restore" -> [s1 EXCEPT !.previous_gamma = NoGamma]
          [] pending.tag = "Change" ->
                IF ok THEN [s1 EXCEPT !.previous_gamma = pending.gamma]
                ELSE [surface EXCEPT !.previous_gamma = NoGamma]

ApplyPendingGamma(surface, ok) ==
    LET pending == surface.pending_gamma_change
        s1 == [surface EXCEPT !.pending_gamma_change = PendingGammaIdle]
    IN  CASE pending.tag = "Idle" ->
                IF ok THEN s1 ELSE [s1 EXCEPT !.previous_gamma = NoGamma]
          [] pending.tag = "Restore" -> [s1 EXCEPT !.previous_gamma = NoGamma]
          [] pending.tag = "Change" ->
                [s1 EXCEPT !.previous_gamma = IF ok THEN pending.gamma ELSE NoGamma]

ApplyPendingGammas(w, n, ok) ==
    [w EXCEPT !.surfaces = [k \in Keys |->
        IF k[1] = n /\ w.surfaces[k] # NoSurface
        THEN ApplyPendingGamma(w.surfaces[k], ok)
        ELSE w.surfaces[k]]]

NodeOrder == << "card0", "card1" >>

\* session::Event::PauseSession: every device's DRM device is paused.  lost:
\* whether the page-flip events in flight at the pause are never delivered
\* (their frames then no longer count as queued).
pause_session_bug_reset(w, lost) ==
    \* faulty variant: the pause also takes every surface back to Idle
    [w EXCEPT !.session = SessionPaused(w.backends),
              !.vblanks = [k \in Keys |-> IF lost THEN 0 ELSE w.vblanks[k]],
              !.surfaces = [k \in Keys |->
                  IF w.surfaces[k] # NoSurface
                  THEN [w.surfaces[k] EXCEPT !.queued = 0, !.render_state = Idle]
                  ELSE w.surfaces[k]]]

pause_session(w, lost) ==
    [w EXCEPT !.session = SessionPaused(w.backends),
              !.vblanks = [k \in Keys |-> IF lost THEN 0 ELSE w.vblanks[k]],
              !.surfaces = [k \in Keys |->
                  IF lost /\ w.surfaces[k] # NoSurface
                  THEN [w.surfaces[k] EXCEPT !.queued = 0]
                  ELSE w.surfaces[k]]]

\* The three loops of the resume handler over the tracked devices that
\* vanished, the ones retained and the ones newly listed.
RECURSIVE RemoveVanished(_, _, _)
RemoveVanished(w, order, ns) ==
    IF order = << >> THEN w
    ELSE RemoveVanished(IF Head(order) \in ns THEN device_removed(w, Head(order))
                        ELSE w,
                        Tail(order), ns)

RECURSIVE ResumeRetained(_, _, _, _, _, _)
ResumeRetained(w, order, ns, scan_ok, cres, gamma_ok) ==
    IF order = << >> THEN w
    ELSE ResumeRetained(
             IF Head(order) \in ns
             THEN ApplyPendingGammas(
                      device_changed(w, Head(order), scan_ok[Head(order)], cres),
                      Head(order), gamma_ok)
             ELSE w,
             Tail(order), ns, scan_ok, cres, gamma_ok)

RECURSIVE AddListed(_, _, _, _, _, _)
AddListed(w, order, ns, adds, scan_ok, cres) ==
    IF order = << >> \/ w.panicked # "none" THEN w
    ELSE AddListed(
             IF Head(order) \in ns
             THEN device_added(w, Head(order), adds[Head(order)],
                               scan_ok[Head(order)], cres)
             ELSE w,
             Tail(order), ns, adds, scan_ok, cres)

RECURSIVE ScheduleOutputs(_, _, _)
ScheduleOutputs(w, o, os) ==
    IF o > MaxOutputs + 1 THEN w
    ELSE ScheduleOutputs(IF o \in os THEN schedule_render(w, o) ELSE w, o + 1, os)

\* session::Event::ActivateSession.  adds, scan_ok: per device, how
\* device_added and scan_connectors end; cres: how the setup of a connector
\* found connected ends; gamma_ok: whether set_gamma_internal succeeds.
activate_session(w, adds, scan_ok, cres, gamma_ok) ==
    LET connected == w.backends \cap w.devList
        disconnected == w.backends \ w.devList
        listed == w.devList \ w.backends
        w1 == RemoveVanished(w, NodeOrder, disconnected)
        w2 == ResumeRetained(w1, NodeOrder, connected, scan_ok, cres, gamma_ok)
        w3 == AddListed(w2, NodeOrder, listed, adds, scan_ok, cres)
    IN  IF w3.panicked # "none" THEN w3
        ELSE [ScheduleOutputs(w3, 1, w3.mapped) EXCEPT !.session = SessionActive]

----------------------------------------------------------------------------
(* Winit: schedule_render, render_if_scheduled, handle_pending_screencopy *)

WinitOutput == 1

\* The copy and completion part of Winit::handle_pending_screencopy: the dmabuf
\* path has no format or size check of its own, the shm path has.
WinitCopyOutcome(sc, fr) ==
    IF sc.buffer = "other" THEN "copy_failed"
    ELSE IF sc.buffer = "shm" /\ ~BufferAccepted(sc) THEN "copy_failed"
    ELSE CASE fr.copy = "err" -> "copy_failed"
           [] fr.copy = "reached" -> "submitted"
           [] fr.copy = "no_fd" -> "submitted"
           [] fr.copy = "pending" -> "deferred"
           [] fr.copy = "insert_err" -> "lost"

\* fr.damage: "none", "empty" or "some" (render_output_result.damage).
winit_handle_pending_screencopy(w, fr) ==
    LET o == WinitOutput
        sc == w.screencopy[o]
        none == ScreencopyCommitStateDefault
        outcome == WinitCopyOutcome(sc, fr)
        damage == IF fr.damage = "some" THEN {"output"} ELSE {}
    IN  IF sc = NoCapture THEN [w EXCEPT !.last = NoCaptureReport]
        ELSE IF sc.with_damage /\ fr.damage # "some"
        THEN [w EXCEPT !.last = CaptureReport(sc, none, none, {}, FALSE, "reattached")]
        ELSE [w EXCEPT !.screencopy[o] = NoCapture,
                       !.sync_sources = IF outcome = "deferred" THEN @ + 1 ELSE @,
                       !.last = CaptureReport(sc, none, none, damage,
                                              sc.with_damage, outcome)]

winit_schedule_render(w) ==
    [w EXCEPT !.output_render_scheduled = TRUE,
              !.last = [op |-> "winit_schedule_render"]]

\* render_if_scheduled with render_winit_window inlined.
render_if_scheduled(w, fr) ==
    LET w1 == IF fr.result = "ok" /\ w.lock_state = "unlocked"
              THEN winit_handle_pending_screencopy(w, fr)
              ELSE [w EXCEPT !.last = NoCaptureReport]
        report(pass, capture) ==
            [op |-> "render_if_scheduled", output |-> WinitOutput, pass |-> pass,
             built |-> pass # "not_scheduled", capture |-> capture]
    IN  IF ~w.output_render_scheduled
        THEN [w EXCEPT !.last = report("not_scheduled", NoCaptureReport)]
        ELSE [w1 EXCEPT !.output_render_scheduled = FALSE,
                        !.last = report(IF fr.result = "ok" THEN "rendered"
                                        ELSE "render_err", w1.last)]

----------------------------------------------------------------------------
(* Inputs of the handlers *)

ConnResults == {"ok", "surface_err", "compositor_err"}

NoAdvance == [swapchain |-> 0, element |-> 0, cursor |-> 0]

\* Frames of a render pass where no capture matters: the outcome of
\* render_frame and queue_frame, and whether a layout transaction was ready.
SchedFrames ==
    {[result |-> "err", is_empty |-> TRUE, queue_ok |-> FALSE, tx_ready |-> t,
      primary |-> "Swapchain", cursor |-> FALSE, adv |-> NoAdvance,
      copy |-> "reached"] : t \in BOOLEAN}
    \cup
    {[result |-> "ok", is_empty |-> TRUE, queue_ok |-> FALSE, tx_ready |-> t,
      primary |-> "Swapchain", cursor |-> FALSE, adv |-> NoAdvance,
      copy |-> "reached"] : t \in BOOLEAN}
    \cup
    {[result |-> "ok", is_empty |-> FALSE, queue_ok |-> q, tx_ready |-> t,
      primary |-> "Swapchain", cursor |-> FALSE, adv |-> NoAdvance,
      copy |-> "reached"] : q \in BOOLEAN, t \in BOOLEAN}

\* The frames of SchedFrames and the passes in which render_frame or
\* queue_frame returns SwapBuffersError::ContextLost.
RenderFrames ==
    SchedFrames \cup
    {[result |-> "context_lost", is_empty |-> TRUE, queue_ok |-> FALSE,
      tx_ready |-> t, primary |-> "Swapchain", cursor |-> FALSE,
      adv |-> NoAdvance, copy |-> "reached"] : t \in BOOLEAN}

Advances ==
    [swapchain : {0, 1}, element : {0, 1}, cursor : {0, 1}]

\* Frames of a render pass with their damage: which planes the frame has,
\* which damage trackers took a commit, and how the copy of a capture ends.
\* An empty frame commits nothing; a frame without a cursor plane commits no
\* cursor damage; only the tracker of the frame's primary element commits.
CopyFrames ==
    {fr \in [result : {"ok", "err"}, is_empty : BOOLEAN, queue_ok : BOOLEAN,
             tx_ready : {FALSE}, primary : {"Swapchain", "Element"},
             cursor : BOOLEAN, adv : Advances,
             copy : {"err", "reached", "no_fd", "pending", "insert_err"}] :
        /\ fr.is_empty => fr.adv = NoAdvance /\ ~fr.queue_ok
        /\ ~fr.cursor => fr.adv.cursor = 0
        /\ fr.primary = "Swapchain" => fr.adv.element = 0
        /\ fr.primary = "Element" => fr.adv.swapchain = 0
        /\ fr.result = "err" =>
              /\ fr.is_empty /\ fr.primary = "Swapchain" /\ ~fr.cursor
              /\ fr.copy = "reached"}

WinitFrames ==
    [result : {"ok", "err"}, damage : {"none", "empty", "some"},
     copy : {"err", "reached", "no_fd", "pending", "insert_err"}]

\* A capture request: copy or copy_with_damage, the kind of its buffer, and
\* whether the buffer's format and size fit the requested region.
Captures ==
    {sc \in [with_damage : BOOLEAN, buffer : {"dmabuf", "shm", "other"},
             format_ok : BOOLEAN, size_ok : BOOLEAN] :
        sc.buffer = "other" => sc.format_ok /\ sc.size_ok}

----------------------------------------------------------------------------
(* Actions: one per event the loop dispatches *)

Running == panicked = "none"

\* Event sources are dispatched before the idle callbacks of an iteration, and
\* never between two idle callbacks of one dispatch_idles pass.
SourcesMayRun == Running /\ batch = << >>

Created == 1..(nextOut - 1)

\* Any handler that calls State::schedule_render for an Output it holds (a
\* commit, the animated-cursor timer of on_vblank, the API).
ScheduleRender(o) ==
    /\ SourcesMayRun /\ backend = "udev"
    /\ o \in Created
    /\ Cardinality(Pending(W)) < MaxIdles
    /\ LET w1 == schedule_render(W, o)
       IN  Install([w1 EXCEPT !.last =
               [op |-> "schedule_render", output |-> o,
                found |-> RenderStateOf(W, o).tag,
                registered |-> Cardinality(Pending(w1)) - Cardinality(Pending(W))]])

SetOutputPowered(o, on) ==
    /\ SourcesMayRun /\ backend = "udev"
    /\ o \in outputs
    /\ LET w1 == set_output_powered(W, o, on)
       IN  Install([w1 EXCEPT !.last =
               [op |-> "set_output_powered", output |-> o, on |-> on,
                found |-> RenderStateOf(W, o)]])

\* The DRM notifier of a registered device delivers a page-flip event.
VBlank(n, c, sub) ==
    /\ SourcesMayRun /\ backend = "udev"
    /\ session.active
    /\ n \in backends
    /\ vblanks[<< n, c >>] > 0
    /\ Cardinality(Pending(W)) < MaxIdles
    /\ Install(on_vblank([W EXCEPT !.vblanks[<< n, c >>] = @ - 1], n, c, sub))

\* dispatch_idles: the callbacks registered so far run in order; callbacks they
\* register wait for the next iteration.  A pass that copies no capture is
\* given one outcome of the copy, which it does not read.
NextIdle(w) ==
    IF w.batch = << >> THEN Head(w.idles) ELSE Head(w.batch)

PopIdle(w) ==
    IF w.batch = << >>
    THEN [w EXCEPT !.batch = Tail(w.idles), !.idles = << >>]
    ELSE [w EXCEPT !.batch = Tail(w.batch)]

RunIdle(fr) ==
    /\ Running /\ backend = "udev"
    /\ Pending(W) # {}
    /\ LET o == NextIdle(W).output
       IN  /\ HasKey(W, o) =>
                 /\ vblanks[KeyOf(W, o)] < MaxInflight
                 /\ commits[KeyOf(W, o)].primary_plane_swapchain + fr.adv.swapchain
                      + commits[KeyOf(W, o)].primary_plane_element + fr.adv.element
                      + commits[KeyOf(W, o)].cursor + fr.adv.cursor <= MaxCommit
           /\ (screencopy[o] = NoCapture \/ lock_state # "unlocked") =>
                 fr.copy = "reached"
           /\ ~session.active => PassOf(fr) # "queued"
           /\ Install(render_surface(PopIdle(W), o, fr))

\* A configuration request asks the backend to set an Output's mode.
SetOutputMode(o, mode, ok) ==
    /\ Running /\ backend = "udev"
    /\ o \in outputs
    /\ Install(set_output_mode(W, o, mode, ok))

HwPlug(n, c) ==
    /\ Running
    /\ c \notin hw[n]
    /\ Install([W EXCEPT !.hw[n] = @ \cup {c}, !.last = [op |-> "hardware"]])

HwUnplug(n, c) ==
    /\ Running
    /\ c \in hw[n]
    /\ Install([W EXCEPT !.hw[n] = @ \ {c}, !.last = [op |-> "hardware"]])

\* UdevEvent::Added
UdevAdded(n, add, scan_ok, cres) ==
    /\ SourcesMayRun /\ backend = "udev"
    /\ n \notin devList
    /\ nextOut + Cardinality(hw[n]) - 1 <= MaxOutputs
    /\ Cardinality(drm_sources) < MaxSources
    /\ LET w1 == device_added([W EXCEPT !.devList = @ \cup {n}], n, add,
                              scan_ok, cres)
       IN  Install([w1 EXCEPT !.last =
               [op |-> "device_added", node |-> n, failed |-> add # "ok"]])

\* UdevEvent::Added for a device on which the scan finds the connectors of cs
\* connected: the hardware is an input of the handler and hw is not kept.
UdevAddedWith(n, cs, add, scan_ok, cres) ==
    /\ SourcesMayRun /\ backend = "udev"
    /\ n \notin devList
    /\ nextOut + Cardinality(cs) - 1 <= MaxOutputs
    /\ Cardinality(drm_sources) < MaxSources
    /\ LET w0 == [W EXCEPT !.devList = @ \cup {n}, !.hw[n] = cs]
           w1 == device_added(w0, n, add, scan_ok, cres)
       IN  Install([w1 EXCEPT !.hw = hw, !.last =
               [op |-> "device_added", node |-> n, failed |-> add # "ok"]])

\* UdevEvent::Changed
UdevChanged(n, scan_ok, cres) ==
    /\ SourcesMayRun /\ backend = "udev"
    /\ n \in devList
    /\ nextOut + Cardinality(hw[n]) - 1 <= MaxOutputs
    /\ LET w1 == device_changed(W, n, scan_ok, cres)
       IN  Install([w1 EXCEPT !.last = [op |-> "device_changed", node |-> n]])

\* UdevEvent::Changed for a device on which the scan finds the connectors of
\* cs connected.
UdevChangedTo(n, cs, scan_ok, cres) ==
    /\ SourcesMayRun /\ backend = "udev"
    /\ n \in devList
    /\ nextOut + Cardinality(cs) - 1 <= MaxOutputs
    /\ LET w1 == device_changed([W EXCEPT !.hw[n] = cs], n, scan_ok, cres)
       IN  Install([w1 EXCEPT !.hw = hw, !.last =
               [op |-> "device_changed", node |-> n, scan_ok |-> scan_ok,
                failed |-> \E c \in cs \ scanner[n] : cres[c] # "ok"]])

\* UdevEvent::Removed; node_ok: whether DrmNode::from_dev_id still resolves
\* the device id, without which the handler does nothing.
UdevRemoved(n, node_ok) ==
    /\ SourcesMayRun /\ backend = "udev"
    /\ n \in devList
    /\ LET w0 == [W EXCEPT !.devList = @ \ {n}]
           w1 == IF node_ok THEN device_removed(w0, n) ELSE w0
       IN  Install([w1 EXCEPT !.last =
               [op |-> "device_removed", node |-> n, node_ok |-> node_ok]])

\* The gamma control protocol sets or restores the tables of an output.
SetGamma(o, gamma, ok) ==
    /\ SourcesMayRun /\ backend = "udev"
    /\ o \in outputs
    /\ render_surface_for_output(W, o) # NoSurface
    /\ LET w1 == set_gamma(W, KeyOf(W, o), gamma, ok)
       IN  Install([w1 EXCEPT !.last = [op |-> "set_gamma", output |-> o]])

\* session::Event::PauseSession; again: the session was paused already.
PauseSession(lost) ==
    /\ SourcesMayRun /\ backend = "udev"
    /\ LET w1 == pause_session(W, lost)
       IN  Install([w1 EXCEPT !.last =
               [op |-> "pause_session", again |-> ~session.active]])

\* session::Event::ActivateSession
ActivateSession(adds, scan_ok, cres, gamma_ok) ==
    /\ SourcesMayRun /\ backend = "udev"
    /\ ~session.active
    /\ nextOut + Cardinality(UNION {hw[n] : n \in devList}) - 1 <= MaxOutputs
    /\ Cardinality(drm_sources) + Cardinality(devList \ backends) <= MaxSources
    /\ Cardinality(Pending(W)) + MaxOutputs <= MaxIdles + 1
    /\ Cardinality(Pending(activate_session(W, adds, scan_ok, cres, gamma_ok)))
          <= MaxIdles
    /\ LET w1 == activate_session(W, adds, scan_ok, cres, gamma_ok)
       IN  Install([w1 EXCEPT !.last =
               [op |-> "activate_session",
                tracked_at_pause |-> session.tracked,
                failed |-> {n \in devList \ backends : adds[n] # "ok"},
                gamma_ok |-> gamma_ok]])

\* The screencopy protocol handler attaches a capture to its output.
CaptureRequest(o, sc) ==
    /\ SourcesMayRun
    /\ o \in outputs
    /\ screencopy[o] = NoCapture
    /\ sync_sources < MaxSync
    /\ Install([W EXCEPT !.screencopy[o] = sc,
                         !.last = [op |-> "capture", output |-> o]])

\* The one-shot source on a capture's sync fd fires: submit is sent.
SyncSignaled ==
    /\ SourcesMayRun
    /\ sync_sources > 0
    /\ Install([W EXCEPT !.sync_sources = @ - 1,
                         !.last = [op |-> "sync_signaled"]])

\* The render pass copies the capture it took from the frame it rendered.
CopyToBuffer ==
    /\ Running /\ backend = "udev"
    /\ last.op = "copy_request"
    /\ Install([W EXCEPT !.last = copy_to_buffer(last.request, last.cursor_at)])

\* Some handler calls State::schedule with a new condition and run.
Schedule(t) ==
    /\ Running
    /\ t \notin scheduled.called
    /\ Install([schedule(W, t) EXCEPT !.scheduled.called = @ \cup {t},
                                      !.last = [op |-> "schedule", task |-> t]])

\* The state a condition reads changes: it would now return b.
SetCondition(t, b) ==
    /\ Running
    /\ scheduled.condition[t] # b
    /\ Install([W EXCEPT !.scheduled.condition[t] = b,
                         !.last = [op |-> "set_condition", task |-> t]])

\* dispatch_idles runs the next check: those registered so far run in order,
\* and a check registered meanwhile waits for the next iteration.
DispatchScheduled ==
    /\ Running
    /\ scheduled.idles # << >> \/ scheduled.batch # << >>
    /\ LET w == IF scheduled.batch = << >>
                THEN [W EXCEPT !.scheduled.batch = W.scheduled.idles,
                               !.scheduled.idles = << >>]
                ELSE W
       IN  Install(schedule_idle([w EXCEPT !.scheduled.batch = Tail(@)],
                                 Head(w.scheduled.batch)))

\* The session lock protocol changes pinnacle.lock_state.
LockChange(s) ==
    /\ SourcesMayRun
    /\ s # lock_state
    /\ Install([W EXCEPT !.lock_state = s, !.last = [op |-> "lock"]])

WinitScheduleRender ==
    /\ SourcesMayRun /\ backend = "winit"
    /\ Install(winit_schedule_render(W))

WinitRender(fr) ==
    /\ SourcesMayRun /\ backend = "winit"
    /\ output_render_scheduled
    /\ Install(render_if_scheduled(W, fr))

----------------------------------------------------------------------------
(* Specifications *)

\* The state after construction with no device added yet.
InitWorld(b) ==
    [ backend |-> b, backends |-> {}, scanner |-> [n \in Nodes |-> {}],
      surfaces |-> [k \in Keys |-> NoSurface], outputs |-> {},
      outData |-> [o \in OutputIds |-> NoData], nextOut |-> 1,
      powered |-> [o \in OutputIds |-> DefaultPowered],
      screencopy |-> [o \in OutputIds |-> NoCapture], lock_state |-> "unlocked",
      idles |-> << >>, batch |-> << >>, sync_sources |-> 0,
      hw |-> [n \in Nodes |-> {}], devList |-> {},
      vblanks |-> [k \in Keys |-> 0],
      commits |-> [k \in Keys |-> ScreencopyCommitStateDefault],
      output_render_scheduled |-> FALSE, gpu_nodes |-> {}, drm_sources |-> {},
      registration |-> [n \in Nodes |-> 0], mapped |-> {},
      session |-> SessionActive, torn |-> [k \in Keys |-> FALSE],
      mode_state |-> [o \in OutputIds |-> NoModes],
      scheduled |-> NoneScheduled,
      client |-> NotConnected, cycler |-> NoCycler,
      panicked |-> "none", last |-> [op |-> "init"] ]

Start(w) ==
    /\ backend = w.backend
    /\ backends = w.backends
    /\ scanner = w.scanner
    /\ surfaces = w.surfaces
    /\ outputs = w.outputs
    /\ outData = w.outData
    /\ nextOut = w.nextOut
    /\ powered = w.powered
    /\ screencopy = w.screencopy
    /\ lock_state = w.lock_state
    /\ idles = w.idles
    /\ batch = w.batch
    /\ sync_sources = w.sync_sources
    /\ hw = w.hw
    /\ devList = w.devList
    /\ vblanks = w.vblanks
    /\ commits = w.commits
    /\ output_render_scheduled = w.output_render_scheduled
    /\ gpu_nodes = w.gpu_nodes
    /\ drm_sources = w.drm_sources
    /\ registration = w.registration
    /\ mapped = w.mapped
    /\ session = w.session
    /\ torn = w.torn
    /\ mode_state = w.mode_state
    /\ scheduled = w.scheduled
    /\ client = w.client
    /\ cycler = w.cycler
    /\ panicked = w.panicked
    /\ last = w.last

\* The devices and pipelines the scheduler specification plugs and unplugs.
SchedNodes == {"card0"}
SchedCrtcs == {"crtc0"}

Init == Start(InitWorld("udev"))

Next ==
    \/ \E o \in OutputIds : ScheduleRender(o)
    \/ \E o \in OutputIds, on \in BOOLEAN : SetOutputPowered(o, on)
    \/ \E n \in SchedNodes, c \in SchedCrtcs, sub \in {"ok", "err", "context_lost"} :
          VBlank(n, c, sub)
    \/ \E fr \in SchedFrames : RunIdle(fr)
    \/ \E n \in SchedNodes, c \in SchedCrtcs : HwPlug(n, c)
    \/ \E n \in SchedNodes, c \in SchedCrtcs : HwUnplug(n, c)
    \/ \E n \in SchedNodes, add \in {"ok", "open_err"}, scan_ok \in BOOLEAN,
          cres \in [Crtcs -> ConnResults] : UdevAdded(n, add, scan_ok, cres)
    \/ \E n \in SchedNodes, scan_ok \in BOOLEAN, cres \in [Crtcs -> ConnResults] :
          UdevChanged(n, scan_ok, cres)
    \/ \E n \in SchedNodes : UdevRemoved(n, TRUE)

Spec == Init /\ [][Next]_vars

\* The udev backend started with one device whose connector is plugged in, or
\* the winit backend with its window output.
InitCopyUdev ==
    LET w0 == [InitWorld("udev") EXCEPT !.devList = {"card0"},
                                        !.hw["card0"] = {"crtc0"}]
    IN  device_added(w0, "card0", "ok", TRUE, [c \in Crtcs |-> "ok"])

InitCopyWinit ==
    [InitWorld("winit") EXCEPT !.outputs = {WinitOutput},
                               !.mapped = {WinitOutput}, !.nextOut = 2,
                               !.mode_state[WinitOutput] =
                                   [current_mode |-> PreferredMode,
                                    modes |-> << PreferredMode >>]]

InitCopy == Start(InitCopyUdev) \/ Start(InitCopyWinit)

NextCopy ==
    \/ \E o \in OutputIds, sc \in Captures : CaptureRequest(o, sc)
    \/ \E o \in OutputIds : ScheduleRender(o)
    \/ \E fr \in CopyFrames : RunIdle(fr)
    \/ \E sub \in {"ok", "err"} : VBlank("card0", "crtc0", sub)
    \/ SyncSignaled
    \/ \E s \in {"unlocked", "locked"} : LockChange(s)
    \/ WinitScheduleRender
    \/ \E fr \in WinitFrames : WinitRender(fr)

SpecCopy == InitCopy /\ [][NextCopy]_vars

OkScan == [n \in Nodes |-> TRUE]
OkAdds == [n \in Nodes |-> "ok"]
OkConn == [c \in Crtcs |-> "ok"]

\* Device and connector hotplug over two devices, the failures of every step
\* included.  card0 has two pipelines, card1 one whose id card0 has too.
HotplugCrtcs(n) == IF n = "card0" THEN {"crtc0", "crtc1"} ELSE {"crtc0"}

\* The setup of the connectors one scan finds ends the same way for all.
UniformConn == {[c \in Crtcs |-> r] : r \in ConnResults}

\* The connectors found and the outcome of their setup are read only by a
\* handler that gets as far as a successful scan.
NextHotplug ==
    \/ \E n \in Nodes : \E cs \in SUBSET HotplugCrtcs(n),
          cres \in UniformConn : UdevAddedWith(n, cs, "ok", TRUE, cres)
    \/ \E n \in Nodes : UdevAddedWith(n, {}, "ok", FALSE, OkConn)
    \/ \E n \in Nodes, add \in AddResults \ {"ok"} :
          UdevAddedWith(n, {}, add, TRUE, OkConn)
    \/ \E n \in Nodes : \E cs \in SUBSET HotplugCrtcs(n),
          cres \in UniformConn : UdevChangedTo(n, cs, TRUE, cres)
    \/ \E n \in Nodes : UdevChangedTo(n, {}, FALSE, OkConn)
    \/ \E n \in Nodes, node_ok \in BOOLEAN : UdevRemoved(n, node_ok)

SpecHotplug == Init /\ [][NextHotplug]_vars

\* Session pause and resume over two devices while devices come and go; card0
\* has one pipeline, card1 has no connector.
ResumeCrtcs == {"crtc0"}

NextResume ==
    \/ \E c \in ResumeCrtcs : HwPlug("card0", c)
    \/ \E c \in ResumeCrtcs : HwUnplug("card0", c)
    \/ \E n \in Nodes, add \in {"ok", "open_err"} : UdevAdded(n, add, TRUE, OkConn)
    \/ \E n \in Nodes, node_ok \in BOOLEAN : UdevRemoved(n, node_ok)
    \/ PauseSession(FALSE)
    \/ \E adds \in [Nodes -> {"ok", "open_err"}] :
          ActivateSession(adds, OkScan, OkConn, TRUE)

SpecResume == Init /\ [][NextResume]_vars

\* One device with one pipeline: rendering with damage-only captures, gamma
\* changes and connector hotplug.
ReconnectFrames ==
    {fr \in CopyFrames :
        /\ fr.primary = "Swapchain" /\ ~fr.cursor /\ fr.copy = "reached"
        /\ fr.is_empty => fr.result = "err"}

ReconnectCaptures ==
    {sc \in Captures : sc.with_damage /\ sc.buffer = "shm" /\ BufferAccepted(sc)}

NextReconnect ==
    \/ \E o \in OutputIds : ScheduleRender(o)
    \/ \E fr \in ReconnectFrames : RunIdle(fr)
    \/ VBlank("card0", "crtc0", "ok")
    \/ \E o \in OutputIds, sc \in ReconnectCaptures : CaptureRequest(o, sc)
    \/ \E o \in OutputIds, gamma \in Gammas \cup {NoGamma}, ok \in BOOLEAN :
          SetGamma(o, gamma, ok)
    \/ \E cs \in SUBSET {"crtc0"}, cres \in UniformConn :
          UdevChangedTo("card0", cs, TRUE, cres)

SpecReconnect == Start(InitCopyUdev) /\ [][NextReconnect]_vars

\* One device with one pipeline: rendering across session pause and resume.
NextSession ==
    \/ \E o \in OutputIds : ScheduleRender(o)
    \/ \E o \in OutputIds, sc \in ReconnectCaptures : CaptureRequest(o, sc)
    \/ \E o \in OutputIds, on \in BOOLEAN : SetOutputPowered(o, on)
    \/ \E fr \in SchedFrames : RunIdle(fr)
    \/ VBlank("card0", "crtc0", "ok")
    \/ \E lost \in BOOLEAN : PauseSession(lost)
    \/ \E gamma_ok \in BOOLEAN : ActivateSession(OkAdds, OkScan, OkConn, gamma_ok)

SpecSession == Start(InitCopyUdev) /\ [][NextSession]_vars

\* The copy of a capture, over every request and every place of the cursor:
\* a render pass has taken the capture rq and rendered a frame whose cursor
\* element, if any, covers the pixel cursor.
InitCopyPath ==
    \E rq \in CopyRequests, cursor \in CopyCursors :
        Start([InitWorld("udev") EXCEPT
                   !.last = [op |-> "copy_request", request |-> rq,
                             cursor_at |-> cursor]])

NextCopyPath == CopyToBuffer

SpecCopyPath == InitCopyPath /\ [][NextCopyPath]_vars

\* Captures and render passes of either backend while the session lock comes
\* and goes.
LockStates == {"unlocked", "locking", "locked"}

LockFrames ==
    {fr \in CopyFrames :
        /\ fr.primary = "Swapchain" /\ ~fr.cursor
        /\ fr.copy \in {"reached", "pending"}}

LockWinitFrames ==
    {fr \in WinitFrames : fr.copy \in {"reached", "pending"}}

NextLock ==
    \/ \E o \in OutputIds, sc \in ReconnectCaptures : CaptureRequest(o, sc)
    \/ \E o \in OutputIds : ScheduleRender(o)
    \/ \E fr \in LockFrames : RunIdle(fr)
    \/ VBlank("card0", "crtc0", "ok")
    \/ SyncSignaled
    \/ \E s \in LockStates : LockChange(s)
    \/ WinitScheduleRender
    \/ \E fr \in LockWinitFrames : WinitRender(fr)

SpecLock == InitCopy /\ [][NextLock]_vars

\* The API client: config_func and the callbacks issue requests, the
\* compositor answers them and calls callbacks, setup's loop runs.
ClientRuns == client.pc # "none" /\ client.stuck = "none"

ClientStep(c, op) == Install([W EXCEPT !.client = c, !.last = [op |-> op]])

\* config_func or the callback under way calls request.
Request ==
    /\ ClientRuns
    /\ client.pc \in {"config", "callback"}
    /\ client.waiting = -1
    /\ client.REQUEST_ID_COUNTER < MaxRequests
    /\ ClientStep(request(client), "request")

\* One turn of read_msg for the request that waits; the read blocks until the
\* socket has a message.
ReadMsg(how) ==
    /\ ClientRuns
    /\ client.waiting # -1
    /\ \/ client.UNREAD_REQUEST_MSGS[client.waiting] # NoMsg
       \/ client.stream # << >>
    /\ ClientStep(read_msg(client, how), "read_msg")

\* config_func returns and setup enters its loop.
ConfigReturn ==
    /\ ClientRuns
    /\ client.pc = "config"
    /\ client.waiting = -1
    /\ ClientStep([client EXCEPT !.pc = "loop"], "config_return")

SetupLoop ==
    /\ ClientRuns
    /\ client.pc = "loop"
    /\ ClientStep(setup_loop(client), "setup_loop")

\* The for loop visits the entries of the HashMap in no particular order.
SetupFor(cb_id) ==
    /\ ClientRuns
    /\ client.pc = "for"
    /\ cb_id \in client.iter
    /\ ClientStep(setup_for(client, cb_id), "setup_for")

SetupRemove ==
    /\ ClientRuns
    /\ client.pc = "for"
    /\ client.iter = {}
    /\ ClientStep(setup_remove(client), "setup_remove")

SetupRead ==
    /\ ClientRuns
    /\ client.pc = "read"
    /\ client.stream # << >>
    /\ ClientStep(setup_read(client), "setup_read")

CallbackReturn ==
    /\ ClientRuns
    /\ client.pc = "callback"
    /\ client.waiting = -1
    /\ ClientStep(callback_return(client), "callback_return")

\* The compositor answers the oldest request it has not answered.
CompositorResponds ==
    /\ client.pc # "none"
    /\ client.outbox # << >>
    /\ ClientStep([client EXCEPT
                      !.stream = Append(@, RequestResponse(Head(client.outbox))),
                      !.outbox = Tail(@)], "response")

\* The compositor calls a callback the client has registered.
CompositorCallsCallback(callback_id) ==
    /\ client.pc # "none"
    /\ callback_id < client.CALLBACK_VEC
    /\ client.sent < MaxMsgs
    /\ ClientStep([client EXCEPT
                      !.stream = Append(@, CallCallback(callback_id, client.sent + 1)),
                      !.sent = @ + 1], "call_callback")

InitClient ==
    \E n \in 0..MaxCallbacks :
        Start([InitWorld("udev") EXCEPT !.client = Connected(n)])

NextClient ==
    \/ Request
    \/ \E how \in Relock : ReadMsg(how)
    \/ ConfigReturn
    \/ SetupLoop
    \/ \E cb_id \in CallbackIds : SetupFor(cb_id)
    \/ SetupRemove
    \/ SetupRead
    \/ CallbackReturn
    \/ CompositorResponds
    \/ \E callback_id \in CallbackIds : CompositorCallsCallback(callback_id)

SpecClient == InitClient /\ [][NextClient]_vars

\* A layout cycler: the active tag changes, next and prev are called.
LayoutLists ==
    {SubSeq(Layout, a, a + n - 1) : a \in 1..2, n \in 1..MaxLayouts}

CycleReport(dir) ==
    [op |-> "cycle", cycle |-> dir, tag |-> cycler.active,
     index |-> IF cycler.active = NoTag THEN NoIndex
               ELSE cycler.indices[cycler.active],
     layout |-> IF cycler.active = NoTag THEN "none"
                ELSE cycler.layout[cycler.active]]

CyclerNext ==
    /\ cycler.layouts # << >>
    /\ Install([W EXCEPT !.cycler = next(cycler), !.last = CycleReport("Forward")])

CyclerPrev ==
    /\ cycler.layouts # << >>
    /\ Install([W EXCEPT !.cycler = prev(cycler), !.last = CycleReport("Backward")])

\* The compositor makes another tag of the output the active one, or none.
SwitchToTag(tag) ==
    /\ cycler.layouts # << >>
    /\ tag # cycler.active
    /\ Install([W EXCEPT !.cycler.active = tag, !.last = [op |-> "switch_to"]])

InitCycler ==
    \E layouts \in LayoutLists, initial \in {Layout[1], Layout[2]} :
        Start([InitWorld("udev") EXCEPT !.cycler = layout_cycler(layouts, initial)])

NextCycler ==
    \/ CyclerNext
    \/ CyclerPrev
    \/ \E tag \in TagIds \cup {NoTag} : SwitchToTag(tag)

SpecCycler == InitCycler /\ [][NextCycler]_vars

\* One device with one pipeline: gamma requests while the session is active
\* and while it is paused, pause and resume.
NextGamma ==
    \/ \E o \in OutputIds, gamma \in GammaTables \cup {NoGamma}, ok \in BOOLEAN :
          SetGamma(o, gamma, ok)
    \/ \E o \in OutputIds : ScheduleRender(o)
    \/ PauseSession(FALSE)
    \/ \E gamma_ok \in BOOLEAN : ActivateSession(OkAdds, OkScan, OkConn, gamma_ok)

SpecGamma == Start(InitCopyUdev) /\ [][NextGamma]_vars

\* One device with one pipeline: the render scheduler with every outcome of a
\* render pass and of a vblank, power changes and connector hotplug.
NextRender ==
    \/ \E o \in OutputIds : ScheduleRender(o)
    \/ \E o \in OutputIds, on \in BOOLEAN : SetOutputPowered(o, on)
    \/ \E fr \in RenderFrames : RunIdle(fr)
    \/ \E sub \in {"ok", "err", "context_lost"} : VBlank("card0", "crtc0", sub)
    \/ \E cs \in SUBSET {"crtc0"} : UdevChangedTo("card0", cs, TRUE, OkConn)

SpecRender == Start(InitCopyUdev) /\ [][NextRender]_vars


\* One device with one connector: mode requests, power changes and hotplug of
\* the connector, whose compositor creation may fail.
NextMode ==
    \/ \E o \in OutputIds, mode \in Modes, ok \in BOOLEAN : SetOutputMode(o, mode, ok)
    \/ \E o \in OutputIds, on \in BOOLEAN : SetOutputPowered(o, on)
    \/ \E o \in OutputIds : ScheduleRender(o)
    \/ \E cs \in SUBSET {"crtc0"}, cres \in UniformConn :
          UdevChangedTo("card0", cs, TRUE, cres)

SpecMode == Start(InitCopyUdev) /\ [][NextMode]_vars

\* Calls of State::schedule, changes of what the conditions read, and the
\* event loop dispatching its idle callbacks.
NextSchedule ==
    \/ \E t \in Tasks : Schedule(t)
    \/ \E t \in Tasks, b \in BOOLEAN : SetCondition(t, b)
    \/ DispatchScheduled

SpecSchedule == Init /\ [][NextSchedule]_vars

\* The event loop keeps iterating: pending idle callbacks are dispatched.
FairSchedule == SpecSchedule /\ WF_vars(DispatchScheduled)

----------------------------------------------------------------------------
(* Properties of the render scheduler (Spec) *)

IsRenderPass(r) == r.op = "render_surface"

\* C1: at most one submitted frame is in flight per Display Surface:
\* render_surface never queues a frame for a surface while an earlier queued
\* frame of that surface has not had its vblank processed by on_vblank.
C1_AtMostOneFrameInFlight ==
    \A k \in Keys : surfaces[k] # NoSurface => surfaces[k].queued <= 1

\* C2: whenever the deferred render callback runs for an output that is still
\* registered and powered on, the surface's RenderState is Scheduled, so the
\* assertion in render_surface does not fail.
C2_CallbackFindsScheduled ==
    (IsRenderPass(last) /\ last.registered /\ last.powered) => last.pass # "panic"

C4_ScheduleOnce ==
    [][ /\ (last'.op = "schedule_render" /\ last'.found = "Idle") =>
              /\ last'.registered = 1
              /\ LET rs == RenderStateOf(W', last'.output)
                 IN  /\ rs.tag = "Scheduled"
                     /\ Cardinality({cb \in Pending(W') : cb.token = rs.token}) = 1
        /\ (last'.op = "schedule_render" /\ last'.found = "Scheduled") =>
              /\ last'.registered = 0
              /\ RenderStateOf(W', last'.output) = RenderStateOf(W, last'.output)
              /\ idles' = idles
              /\ batch' = batch
      ]_vars

\* C4 witness: a third schedule_render call in a row found the surface
\* Scheduled.
C4_Witness ==
    /\ last.op = "schedule_render"
    /\ last.found = "Scheduled"
    /\ render_surface_for_output(W, last.output).calls >= 2

\* C5: after a connector disconnect or a device removal no deferred render
\* callback of the torn-down surface is still pending: every pending callback
\* belongs to a registered output that has its surface.
C5_NoCallbackOutlivesSurface ==
    \A cb \in Pending(W) :
        /\ cb.output \in outputs
        /\ render_surface_for_output(W, cb.output) # NoSurface

\* C6: powering off an output whose surface is Scheduled cancels the token
\* and leaves the surface Idle, so the cancelled callback is no longer pending;
\* a schedule_render that finds the surface Idle moves it to Scheduled with a
\* token no pending callback carried before.
C6_PowerOffCancels ==
    [][ /\ (last'.op = "set_output_powered" /\ ~last'.on
                /\ last'.found.tag = "Scheduled") =>
              /\ last'.found.token \notin PendingTokens(W')
              /\ RenderStateOf(W', last'.output) = Idle
              /\ ~powered'[last'.output]
        /\ (last'.op = "schedule_render" /\ last'.found = "Idle") =>
              LET rs == RenderStateOf(W', last'.output)
              IN  /\ rs.tag = "Scheduled"
                  /\ rs.token \notin PendingTokens(W)
                  /\ rs.token \in PendingTokens(W')
      ]_vars

\* C6 witness: an output was powered off while its surface was Scheduled.
C6_Witness ==
    /\ last.op = "set_output_powered"
    /\ ~last.on
    /\ last.found.tag = "Scheduled"
    /\ ~powered[last.output]

\* C7: no frame is built or submitted for an output while it is powered off:
\* a render pass reaches render_frame or queue_frame only with the output's
\* powered flag set.
C7_NoFrameWhilePoweredOff ==
    (IsRenderPass(last) /\ (last.built \/ last.queued)) => last.powered

\* C7 witness: the deferred callback ran for a registered output that was
\* powered off and returned without building a frame.
C7_Witness ==
    /\ IsRenderPass(last)
    /\ last.pass = "off"
    /\ ~last.built

----------------------------------------------------------------------------
(* Properties of screen capture (SpecCopy) *)

IsAnyRenderPass(r) == r.op \in {"render_surface", "render_if_scheduled"}

\* Whether the pass reported by r got as far as the capture handler.
ReachedCapture(r) ==
    IF r.op = "render_surface" THEN r.pass \in {"empty", "queue_err", "queued"}
    ELSE r.pass = "rendered"

Copied == {"submitted", "deferred", "lost"}

\* A buffer of a supported kind whose format or size does not fit the region.
Mismatched(sc) ==
    sc.buffer \in {"dmabuf", "shm"} /\ ~(sc.format_ok /\ sc.size_ok)

\* C8: a damage-only capture never completes with an empty damage set: when
\* the pass is empty or the computed damage is empty the request is put back
\* on its output with no damage event and no submit, otherwise the damage sent
\* is not empty; and the next pass of the output that reaches the capture
\* handler takes the request again.
C8_DamageCaptureNeverEmpty ==
    [][ IsAnyRenderPass(last') =>
          /\ (last'.capture.taken /\ last'.capture.with_damage) =>
                IF last'.capture.damage = {}
                THEN /\ last'.capture.outcome = "reattached"
                     /\ ~last'.capture.damage_sent
                     /\ screencopy'[last'.output] = last'.capture.request
                     /\ sync_sources' = sync_sources
                ELSE /\ last'.capture.outcome # "reattached"
                     /\ last'.capture.damage_sent
          /\ (screencopy[last'.output] # NoCapture /\ ReachedCapture(last')
                  /\ lock_state = "unlocked") =>
                /\ last'.capture.taken
                /\ last'.capture.request = screencopy[last'.output]
      ]_vars

\* C8 witness: a pass put a damage-only capture back on its output.
C8_Witness ==
    /\ IsAnyRenderPass(last)
    /\ last.capture.taken
    /\ last.capture.with_damage
    /\ last.capture.outcome = "reattached"
    /\ screencopy[last.output] # NoCapture

\* C9: the capture commit counters of a surface change only in a render pass
\* in which a capture was copied into the client buffer.
C9_CountersChangeOnlyOnCopy ==
    (IsRenderPass(last) /\ last.capture.commit_changed)
        => last.capture.outcome \in Copied

\* What of a world a render pass can read or later passes depend on:
\* everything but the capture commit counters and the report of the last
\* handler.
Rendering(w) ==
    [w EXCEPT !.last = [op |-> "none"],
              !.surfaces = [k \in Keys |->
                  IF @[k] = NoSurface THEN NoSurface
                  ELSE [@[k] EXCEPT !.screencopy_commit_state =
                                        ScreencopyCommitStateDefault]]]

Submitted == {"submitted", "deferred"}

----------------------------------------------------------------------------
(* Properties of device and connector hotplug (SpecHotplug) *)

\* C12: device_added for a node that is already tracked (no device_removed
\* ran since it was added) is idempotent: the node stays tracked once, and the
\* surfaces, the registered Outputs and the DRM notifier sources of the event
\* loop are as the first call left them.
C12_SecondAddIdempotent ==
    [][ (last'.op = "device_added" /\ last'.node \in backends) =>
            /\ backends' = backends
            /\ surfaces' = surfaces
            /\ outputs' = outputs
            /\ drm_sources' = drm_sources
      ]_vars

\* C13: a device_added that fails at any step skips the device: the node is
\* not tracked afterwards, no notifier source made for it stays in the event
\* loop, the other devices, their surfaces and the Outputs are unchanged, and
\* the process keeps running.
C13_FailedAddLeavesNothing ==
    [][ (last'.op = "device_added" /\ last'.failed /\ last'.node \notin backends) =>
            /\ last'.node \notin backends'
            /\ drm_sources' = drm_sources
            /\ surfaces' = surfaces
            /\ outputs' = outputs
            /\ backends' = backends
            /\ panicked' = "none"
      ]_vars

\* The Outputs registered for a pipeline of device n.
OutputsOf(n) == {o \in outputs : outData[o] # NoData /\ outData[o].device_id = n}

\* C14: device_removed for a tracked node disconnects every connector of the
\* device as connector_disconnected does (surface and Output removed) and then
\* drops the device: afterwards the node is not tracked, it has no surface, no
\* registered Output is bound to it, it is out of the GpuManager and the
\* notifier source of its registration_token is out of the event loop; the
\* other devices keep their surfaces and Outputs.
C14_RemoveTearsDown ==
    [][ (last'.op = "device_removed" /\ last'.node_ok /\ last'.node \in backends) =>
            /\ backends' = backends \ {last'.node}
            /\ gpu_nodes' = gpu_nodes \ {last'.node}
            /\ \A c \in Crtcs : surfaces'[<< last'.node, c >>] = NoSurface
            /\ \A k \in Keys : k[1] # last'.node => surfaces'[k] = surfaces[k]
            /\ outputs' = outputs \ OutputsOf(last'.node)
            /\ mapped' = mapped \ OutputsOf(last'.node)
            /\ drm_sources' =
                  {src \in drm_sources : src.token # registration[last'.node]}
            /\ registration[last'.node] \in {src.token : src \in drm_sources}
            /\ registration'[last'.node] = 0
      ]_vars

----------------------------------------------------------------------------
(* Properties of connector hotplug while rendering (SpecReconnect) *)

\* C15: device_changed on a device whose scan finds the connectors the
\* previous scan found (or whose scan fails) creates no surface and no Output,
\* removes none, and leaves the render state, the gamma state and the capture
\* commit counters of every surface, and the pending callbacks, as they were.
C15_RescanIdempotent ==
    [][ (last'.op = "device_changed" /\ scanner' = scanner) =>
            /\ surfaces' = surfaces
            /\ outputs' = outputs
            /\ outData' = outData
            /\ nextOut' = nextOut
            /\ mapped' = mapped
            /\ commits' = commits
            /\ screencopy' = screencopy
            /\ idles' = idles /\ batch' = batch
            /\ vblanks' = vblanks
            /\ backends' = backends
      ]_vars

\* C15 witness: a re-scan found the connector still connected while its
\* surface waits for a vblank with capture counters that have advanced.
C15_Witness ==
    /\ last.op = "device_changed" /\ last.scan_ok
    /\ scanner["card0"] = {"crtc0"}
    /\ surfaces[<< "card0", "crtc0" >>] # NoSurface
    /\ surfaces[<< "card0", "crtc0" >>].render_state.tag = "WaitingForVblank"
    /\ surfaces[<< "card0", "crtc0" >>].screencopy_commit_state
          # ScreencopyCommitStateDefault
    /\ nextOut = 2

\* C16: a successful connector_connected for a crtc of a device that holds no
\* surface for it makes exactly one surface and one Output bound to (device,
\* crtc), whatever Outputs other devices hold; a disconnect removes exactly the
\* surface and the Output of that (device, crtc).  Stated for a scan that
\* finds one connector more or one less than the previous scan, the setup of
\* the new connector not failing.
C16_OnePerNewConnector ==
    [][ (last'.op = "device_changed" /\ last'.scan_ok /\ ~last'.failed
            /\ last'.node \in backends) =>
          \A c \in Crtcs :
            LET k == << last'.node, c >>
            IN  /\ (scanner'[k[1]] = scanner[k[1]] \cup {c} /\ c \notin scanner[k[1]]
                        /\ surfaces[k] = NoSurface) =>
                      /\ surfaces'[k] # NoSurface
                      /\ Cardinality(outputs' \ outputs) = 1
                      /\ \A o \in outputs' \ outputs :
                            outData'[o] = [device_id |-> k[1], crtc |-> c]
                      /\ outputs \subseteq outputs'
                /\ (scanner'[k[1]] = scanner[k[1]] \ {c} /\ c \in scanner[k[1]]) =>
                      /\ surfaces'[k] = NoSurface
                      /\ outputs' = outputs \ {o \in outputs :
                            outData[o] = [device_id |-> k[1], crtc |-> c]}
                      /\ \A j \in Keys : j # k => surfaces'[j] = surfaces[j]
      ]_vars

----------------------------------------------------------------------------
(* Properties of the surfaces and the Outputs (Spec) *)

\* C17: in every reachable state the surfaces and the registered udev Outputs
\* correspond one to one through (device id, crtc): every surface has exactly
\* one registered Output bound to its device and crtc, every registered Output
\* bound to a device and crtc has a surface in the map of that device, also
\* after a connector_connected in which create_surface or the DrmCompositor
\* failed, and no lookup of an Output's surface panics.
C17_SurfacesMatchOutputs ==
    /\ \A k \in Keys : surfaces[k] # NoSurface =>
          Cardinality({o \in outputs :
              outData[o] = [device_id |-> k[1], crtc |-> k[2]]}) = 1
    /\ \A o \in outputs : outData[o] # NoData =>
          surfaces[<< outData[o].device_id, outData[o].crtc >>] # NoSurface
    /\ panicked # "unwrap_surface"

\* C18: whenever a handler gives a pipeline a surface it did not have, a
\* pipeline reconnected after a disconnect included, the surface is a new one:
\* its RenderState is Idle, its capture commit counters are the defaults, it
\* has no previous gamma tables and its pending gamma change is Idle, and it is
\* bound to a new Output; nothing is taken from the surface removed before.
C18_ReconnectFresh ==
    [][ \A k \in Keys :
          (surfaces[k] = NoSurface /\ surfaces'[k] # NoSurface) =>
              /\ surfaces'[k].render_state = Idle
              /\ surfaces'[k].screencopy_commit_state = ScreencopyCommitStateDefault
              /\ surfaces'[k].previous_gamma = NoGamma
              /\ surfaces'[k].pending_gamma_change = PendingGammaIdle
              /\ surfaces'[k] = NewRenderSurface
              /\ outputs' \ outputs = {nextOut}
              /\ outData'[nextOut] = [device_id |-> k[1], crtc |-> k[2]]
              /\ screencopy'[nextOut] = NoCapture
      ]_vars

\* C18 witness: the pipeline was reconnected after the disconnect of a surface
\* that had left Idle, had advanced its capture counters and held gamma tables.
C18_Witness ==
    /\ last.op = "device_changed" /\ last.scan_ok /\ ~last.failed
    /\ torn[<< "card0", "crtc0" >>]
    /\ surfaces[<< "card0", "crtc0" >>] = NewRenderSurface
    /\ outputs = {2}

----------------------------------------------------------------------------
(* Properties of session pause and resume (SpecResume, SpecSession) *)

\* C19: after the resume handler the tracked nodes are the enumerable devices
\* that could be opened: a tracked device that vanished is torn down (no
\* surface, no registered Output bound to it, out of the GpuManager, no
\* notifier source of it in the event loop), a retained device stays tracked
\* under its registration with its connectors re-scanned, and a listed device
\* that was not tracked is added unless its device_added fails.
C19_ResumeReconciles ==
    [][ last'.op = "activate_session" =>
            /\ backends' = devList \ last'.failed
            /\ gpu_nodes' = backends'
            /\ \A n \in backends \ devList :
                  /\ \A c \in Crtcs : surfaces'[<< n, c >>] = NoSurface
                  /\ \A o \in outputs' : outData'[o].device_id # n
                  /\ \A src \in drm_sources' : src.node # n
            /\ \A n \in backends \cap devList :
                  /\ registration'[n] = registration[n]
                  /\ scanner'[n] = hw[n]
            /\ \A n \in backends' \ backends : scanner'[n] = hw[n]
            /\ session'.active
      ]_vars

\* C20: when the resume handler has run, a render is on its way for every
\* mapped Output that has a surface and is powered on: its surface is Scheduled
\* with the idle callback pending, or it waits for a vblank that is still to be
\* delivered and will render then; this whatever RenderState the surface held
\* at the pause, WaitingForVblank for a frame whose vblank the pause swallowed
\* included.
C20_RenderAfterResume ==
    last.op = "activate_session" =>
        \A o \in mapped :
            (powered[o] /\ render_surface_for_output(W, o) # NoSurface) =>
                LET rs == render_surface_for_output(W, o).render_state
                IN  \/ rs.tag = "Scheduled" /\ rs.token \in PendingTokens(W)
                    \/ rs.tag = "WaitingForVblank" /\ vblanks[KeyOf(W, o)] > 0

\* The part of a surface the handlers of the backend act on: its render
\* state, its capture commit counters and its gamma state.
SurfaceState(surface) ==
    IF surface = NoSurface THEN NoSurface
    ELSE [render_state |-> surface.render_state,
          screencopy_commit_state |-> surface.screencopy_commit_state,
          previous_gamma |-> surface.previous_gamma,
          pending_gamma_change |-> surface.pending_gamma_change]

\* C21: the pause handler pauses the devices and changes nothing else: the
\* tracked nodes, their notifier sources, the surfaces and the Outputs, every
\* surface's render state, capture counters and gamma state, the pending
\* captures and the pending idle callbacks are as before, and a pause handled
\* while the session is paused leaves the session as the first one left it.
C21_PauseOnlyPauses ==
    [][ last'.op = "pause_session" =>
            /\ ~session'.active
            /\ backends' = backends /\ gpu_nodes' = gpu_nodes
            /\ drm_sources' = drm_sources /\ registration' = registration
            /\ scanner' = scanner
            /\ outputs' = outputs /\ mapped' = mapped /\ outData' = outData
            /\ powered' = powered
            /\ screencopy' = screencopy /\ sync_sources' = sync_sources
            /\ idles' = idles /\ batch' = batch
            /\ \A k \in Keys : SurfaceState(surfaces'[k]) = SurfaceState(surfaces[k])
            /\ panicked' = panicked
            /\ last'.again => session' = session
      ]_vars

\* C21 witness: a second pause was handled while the surface waits for a
\* vblank and a capture is pending on its output.
C21_Witness ==
    /\ last.op = "pause_session" /\ last.again
    /\ surfaces[<< "card0", "crtc0" >>] # NoSurface
    /\ surfaces[<< "card0", "crtc0" >>].render_state.tag = "WaitingForVblank"
    /\ screencopy[1] # NoCapture

----------------------------------------------------------------------------
(* Properties of the render pass and of on_vblank (SpecRender) *)

FailedPasses == {"render_err", "queue_err"}

\* C22: a render pass in which render_frame or queue_frame fails with an
\* ordinary error queues nothing and leaves the surface Idle, or Scheduled with
\* its callback pending when the pass took a ready layout transaction: never
\* Scheduled without a callback, never WaitingForVblank; and a schedule_render
\* that finds the surface Idle registers one callback and makes it Scheduled.
C22_ErrorReturnsToIdle ==
    [][ /\ (IsRenderPass(last') /\ last'.pass \in FailedPasses) =>
              LET k == KeyOf(W, last'.output)
                  rs == surfaces'[k].render_state
              IN  /\ vblanks'[k] = vblanks[k]
                  /\ surfaces'[k].queued = surfaces[k].queued
                  /\ \/ rs = Idle
                     \/ /\ rs.tag = "Scheduled"
                        /\ Cardinality({cb \in Pending(W') : cb.token = rs.token}) = 1
                  /\ panicked' = "none"
        /\ (last'.op = "schedule_render" /\ last'.found = "Idle") =>
              LET rs == RenderStateOf(W', last'.output)
              IN  /\ rs.tag = "Scheduled"
                  /\ last'.registered = 1
                  /\ Cardinality({cb \in Pending(W') : cb.token = rs.token}) = 1
      ]_vars

\* C22 witness: queue_frame failed in a pass that took no transaction; the
\* surface is Idle, nothing is queued and no callback is pending.
C22_Witness ==
    /\ IsRenderPass(last) /\ last.pass = "queue_err"
    /\ RenderStateOf(W, last.output) = Idle
    /\ vblanks[<< "card0", "crtc0" >>] = 0
    /\ Pending(W) = {}

\* C23: a render pass in which rendering or queueing the frame reports the
\* loss of the rendering context ends the process, as on_vblank does when
\* frame_submitted reports it: after such a pass the process has panicked and
\* the surface was not returned to Idle to go on scheduling renders.
C23_ContextLostFatal ==
    (IsRenderPass(last) /\ last.pass = "context_lost") =>
        panicked = "rendering_loop_lost"

\* Frames of pipeline k that were queued and whose vblank on_vblank has not
\* processed.
Outstanding(k) ==
    IF surfaces[k] = NoSurface THEN 0 ELSE surfaces[k].queued

\* C24 (as stated): every queued frame gets exactly one presented feedback at
\* its vblank: a frame stops being outstanding only in an on_vblank that sends
\* presented, and that on_vblank retires exactly one frame.
C24_EveryQueuedFramePresented ==
    [][\A k \in Keys :
          Outstanding(k)' < Outstanding(k) =>
              /\ last'.op = "on_vblank" /\ last'.presented
              /\ << last'.node, last'.crtc >> = k
              /\ Outstanding(k)' = Outstanding(k) - 1
      ]_vars

\* C24 (amended): presented is sent only by an on_vblank whose frame_submitted
\* succeeded with a queued frame outstanding on that pipeline, and that
\* on_vblank retires exactly one frame, so no feedback is delivered for a frame
\* that was not queued and none twice; an on_vblank whose frame_submitted
\* fails retires the frame without sending presented.
C24_PresentedAtMostOncePerFrame ==
    [][ /\ \A k \in Keys :
              (last'.op = "on_vblank" /\ last'.presented
                  /\ k = << last'.node, last'.crtc >>) =>
                  /\ Outstanding(k) > 0
                  /\ Outstanding(k)' = Outstanding(k) - 1
                  /\ vblanks'[k] = vblanks[k] - 1
        /\ \A k \in Keys :
              Outstanding(k)' > Outstanding(k) =>
                  /\ IsRenderPass(last') /\ last'.queued
                  /\ Outstanding(k)' = Outstanding(k) + 1
      ]_vars

\* C24 witness: an on_vblank sent presented for the one outstanding frame.
C24_Witness ==
    /\ last.op = "on_vblank"
    /\ last.presented
    /\ Outstanding(<< last.node, last.crtc >>) = 0

----------------------------------------------------------------------------
(* Properties of set_output_mode (SpecMode) *)

\* C25: when use_mode fails, set_output_mode leaves the output's current mode
\* and its list of modes exactly as they were; only when it succeeds does the
\* requested mode become current, appended to the list if it was absent and
\* the list untouched if it was present.  No other output's modes change.
C25_FailedModeSetKeepsMode ==
    [][ last'.op = "set_output_mode" =>
            /\ \A o \in OutputIds \ {last'.output} : mode_state'[o] = mode_state[o]
            /\ (last'.tried /\ ~last'.ok) =>
                  mode_state'[last'.output] = mode_state[last'.output]
            /\ mode_state'[last'.output] # mode_state[last'.output] =>
                  last'.tried /\ last'.ok
            /\ (last'.tried /\ last'.ok) =>
                  /\ mode_state'[last'.output].current_mode = last'.mode
                  /\ mode_state'[last'.output].modes =
                        IF ModeIn(mode_state[last'.output].modes, last'.mode)
                        THEN mode_state[last'.output].modes
                        ELSE Append(mode_state[last'.output].modes, last'.mode)
      ]_vars

\* C25 witness: a failed mode set was handled for an output whose current
\* mode is one an earlier, successful set_output_mode had to add to the list.
C25_Witness ==
    /\ last.op = "set_output_mode" /\ last.tried /\ ~last.ok
    /\ mode_state[last.output].current_mode = "m2"
    /\ last.mode # "m2"
    /\ ModeIn(mode_state[last.output].modes, "m2")

\* C26: a render pass that took a ready layout transaction ends with a further
\* render of the output on its way, whether it queued a frame, found the frame
\* empty or failed: the surface is WaitingForVblank with dirty set and its
\* vblank outstanding when a frame was queued, and otherwise Scheduled with
\* one callback of its token pending; it is never Idle and never
\* WaitingForVblank with dirty clear.
C26_TransactionRendersAgain ==
    [][ (IsRenderPass(last') /\ last'.transaction) =>
            LET rs == RenderStateOf(W', last'.output)
            IN  /\ rs # NoSurface
                /\ last'.pass \in {"queued", "empty", "render_err", "queue_err",
                                   "context_lost"}
                /\ IF last'.queued
                   THEN /\ rs = WaitingForVblank(TRUE)
                        /\ vblanks'[KeyOf(W', last'.output)] > 0
                   ELSE /\ rs.tag = "Scheduled"
                        /\ Cardinality({cb \in Pending(W') : cb.token = rs.token}) = 1
      ]_vars

\* C26 witness: a pass that took a ready transaction failed to render, and the
\* surface is Scheduled again.
C26_Witness ==
    /\ IsRenderPass(last) /\ last.transaction
    /\ last.pass = "render_err"
    /\ RenderStateOf(W, last.output).tag = "Scheduled"

\* C27: no handler of the render path waits synchronously for GPU work or for
\* a sync point: no render pass blocks on the sync point of the frame it has
\* just rendered.
C27_RenderNeverWaits ==
    IsRenderPass(last) => ~last.waited

----------------------------------------------------------------------------
(* Properties of State::schedule (FairSchedule) *)

\* The number of checks of task t registered as idle callbacks.
ChecksOf(t) ==
    Cardinality({i \in 1..Len(scheduled.idles) : scheduled.idles[i] = t})
      + Cardinality({i \in 1..Len(scheduled.batch) : scheduled.batch[i] = t})

\* C28 (as stated): under an event loop that keeps dispatching its idle
\* callbacks, a task whose condition holds at some moment after schedule was
\* called eventually has its run executed.
C28_RunsIfConditionEverHolds ==
    \A t \in Tasks :
        <>(t \in scheduled.called /\ scheduled.condition[t])
            => <>(scheduled.runs[t] = 1)

\* C28 (amended): run executes at most once per call of schedule, and only in an idle
\* callback that has just found condition true; a callback that finds it false
\* registers the check again and runs nothing; one check is registered for a
\* task until its run has executed and none afterwards; and under an event
\* loop that keeps dispatching its idle callbacks, a task whose condition
\* holds from some point on eventually has its run executed.
C28_ScheduleRunsOnceWhenTrue ==
    /\ [][ /\ \A t \in Tasks :
                 /\ scheduled'.runs[t] <= 1
                 /\ scheduled'.runs[t] # scheduled.runs[t] =>
                       /\ last'.op = "schedule_idle" /\ last'.task = t
                       /\ last'.condition /\ scheduled.condition[t]
                       /\ scheduled'.runs[t] = scheduled.runs[t] + 1
                 /\ ChecksOf(t)' =
                       IF t \in scheduled'.called /\ scheduled'.runs[t] = 0
                       THEN 1 ELSE 0
           /\ (last'.op = "schedule_idle" /\ ~last'.condition) =>
                 /\ scheduled'.runs = scheduled.runs
                 /\ scheduled'.idles[Len(scheduled'.idles)] = last'.task
         ]_vars
    /\ \A t \in Tasks :
          <>[](t \in scheduled.called /\ scheduled.condition[t])
              => <>(scheduled.runs[t] = 1)

\* C28 witness: a run has executed while the check of a task scheduled later,
\* whose condition is false, is still registered.
C28_Witness ==
    /\ last.op = "schedule_idle" /\ last.condition
    /\ scheduled.runs[last.task] = 1
    /\ \E t \in Tasks : t > last.task /\ ChecksOf(t) = 1 /\ ~scheduled.condition[t]

C30_AnomalousVblankReschedules ==
    [][ \A k \in Keys :
          (last'.op = "on_vblank" /\ last'.found \in {"Idle", "Scheduled"}
              /\ k = << last'.node, last'.crtc >>) =>
              /\ surfaces[k] # NoSurface
              /\ surfaces[k].render_state.tag = last'.found
              /\ ~last'.frame_callbacks
              /\ last'.registered = 1
              /\ surfaces'[k] # NoSurface
              /\ surfaces'[k].render_state.tag = "Scheduled"
              /\ Cardinality({cb \in Pending(W') :
                                 cb.token = surfaces'[k].render_state.token}) = 1
      ]_vars

\* C30 witness: an on_vblank found the surface Scheduled, with a callback of
\* the earlier token still pending.
C30_Witness ==
    /\ last.op = "on_vblank" /\ last.found = "Scheduled"
    /\ ~last.frame_callbacks
    /\ Cardinality(Pending(W)) = 2

\* C31: an on_vblank that finds the surface WaitingForVblank with dirty set
\* leaves it Scheduled with one newly registered callback of its token and
\* sends no frame callbacks; one that finds dirty clear leaves it Idle,
\* registers nothing, leaves the pending callbacks as they were and sends the
\* frame callbacks; in neither case is the surface WaitingForVblank afterwards.
C31_VblankLeavesWaiting ==
    [][ \A k \in Keys :
          (last'.op = "on_vblank" /\ last'.found = "WaitingForVblank"
              /\ k = << last'.node, last'.crtc >>) =>
              /\ surfaces[k] # NoSurface /\ surfaces'[k] # NoSurface
              /\ surfaces[k].render_state = WaitingForVblank(last'.dirty)
              /\ surfaces'[k].render_state.tag # "WaitingForVblank"
              /\ IF last'.dirty
                 THEN /\ surfaces'[k].render_state.tag = "Scheduled"
                      /\ last'.registered = 1
                      /\ ~last'.frame_callbacks
                      /\ Cardinality(Pending(W')) = Cardinality(Pending(W)) + 1
                      /\ Cardinality({cb \in Pending(W') :
                             cb.token = surfaces'[k].render_state.token}) = 1
                 ELSE /\ surfaces'[k].render_state = Idle
                      /\ last'.registered = 0
                      /\ last'.frame_callbacks
                      /\ Pending(W') = Pending(W)
      ]_vars

\* C31 witness: an on_vblank found the surface waiting with dirty set and left
\* it Scheduled.
C31_Witness ==
    /\ last.op = "on_vblank" /\ last.found = "WaitingForVblank" /\ last.dirty
    /\ surfaces[<< last.node, last.crtc >>] # NoSurface
    /\ surfaces[<< last.node, last.crtc >>].render_state.tag = "Scheduled"

----------------------------------------------------------------------------
(* Properties of the gamma state across a resume (SpecGamma) *)

\* C32: a resume leaves the pending gamma change of every surface of a
\* retained device Idle, and its last-known tables as the pending change it
\* found says.  Idle: kept when applying them succeeds, forgotten when it
\* fails.  Restore: forgotten either way.  Change: the new tables on success,
\* none on failure.  Tables that failed to apply are thus neither pending nor
\* last-known afterwards, and no later resume applies them again.
C32_ResumeConsumesPendingGamma ==
    [][ last'.op = "activate_session" =>
          \A k \in Keys :
            (k[1] \in backends /\ k[1] \in devList
                /\ surfaces[k] # NoSurface /\ surfaces'[k] # NoSurface) =>
              LET pending == surfaces[k].pending_gamma_change
                  previous == surfaces[k].previous_gamma
              IN  /\ surfaces'[k].pending_gamma_change = PendingGammaIdle
                  /\ pending.tag = "Idle" =>
                        surfaces'[k].previous_gamma =
                            IF last'.gamma_ok THEN previous ELSE NoGamma
                  /\ pending.tag = "Restore" =>
                        surfaces'[k].previous_gamma = NoGamma
                  /\ pending.tag = "Change" =>
                        surfaces'[k].previous_gamma =
                            IF last'.gamma_ok THEN pending.gamma ELSE NoGamma
      ]_vars

\* C32 witness: a resume applied tables with success and left them last-known
\* with no change pending, on a surface that exists.
C32_Witness ==
    /\ last.op = "activate_session" /\ last.gamma_ok
    /\ surfaces[<< "card0", "crtc0" >>] # NoSurface
    /\ surfaces[<< "card0", "crtc0" >>].previous_gamma =
          [tag |-> "Some", lut |-> "lut2"]
    /\ surfaces[<< "card0", "crtc0" >>].pending_gamma_change = PendingGammaIdle

----------------------------------------------------------------------------
(* Properties of the completion of a capture (SpecCopy) *)

\* C33: a capture whose copy left a sync point that is not yet reached is
\* never completed inside the render pass: no render pass on a frame whose
\* sync point is unreached (whether or not its fd can be exported and its
\* source inserted) takes a capture and sends submit itself, and none loses
\* the capture; the submit is left to the one-shot source.
C33_SubmitWaitsForSyncPoint ==
    [][ \A fr \in CopyFrames :
          (fr.copy \in {"pending", "no_fd", "insert_err"} /\ RunIdle(fr)
              /\ IsRenderPass(last') /\ last'.capture.taken
              /\ last'.capture.outcome \notin {"reattached", "dropped", "copy_failed"})
            => last'.capture.outcome = "deferred"
      ]_vars

----------------------------------------------------------------------------
(* Properties of the copy into the client's buffer (SpecCopyPath) *)

IsCopy(r) == r.op = "screencopy_copy"

\* C34: the direct copy is taken exactly for an accepted request with a dmabuf
\* whose region is the whole output; every other accepted request goes through
\* an offscreen buffer of the size of the output, and in both cases the buffer
\* receives exactly the pixels of the requested region, each pixel of the
\* buffer taken from the pixel of the output at the region's offset; a request
\* that is not accepted is copied nothing.
C34_CopyPathSelection ==
    IsCopy(last) =>
        LET rq == last.request
        IN  /\ last.path = "direct" <=>
                  (CopyAccepted(rq) /\ rq.buffer = "dmabuf" /\ rq.region = OutputRect)
            /\ last.path = "offscreen" <=>
                  (CopyAccepted(rq)
                      /\ ~(rq.buffer = "dmabuf" /\ rq.region = OutputRect))
            /\ last.path = "offscreen" => last.offscreen = untransformed_output_size
            /\ last.path = "none" => last.image = << >>
            /\ last.path # "none" =>
                  /\ DOMAIN last.image = PixelsOf(Rect(0, 0, rq.width, rq.height))
                  /\ \A p \in DOMAIN last.image :
                        last.image[p].src = << rq.region.x + p[1], rq.region.y + p[2] >>

\* C34 witness: a partial region that does not start at the origin was copied
\* through the offscreen buffer.
C34_Witness ==
    /\ IsCopy(last) /\ last.path = "offscreen"
    /\ last.request.region.x > 0 /\ last.request.region.y > 0
    /\ last.request.buffer = "dmabuf"

\* C37: on every copy path the cursor is in the captured image exactly when
\* the request's overlay_cursor flag is set: a pixel of the buffer shows the
\* cursor iff the flag is set and the frame's cursor element covers the pixel
\* of the output it was taken from.
C37_CursorIffOverlayFlag ==
    (IsCopy(last) /\ last.path # "none") =>
        \A p \in DOMAIN last.image :
            last.image[p].cursor <=>
                (last.request.overlay_cursor /\ last.cursor_at = last.image[p].src)

----------------------------------------------------------------------------
(* The deferred render callback and the Scheduled state (SpecRender) *)

\* The deferred render callbacks pending for the surface at k: a callback
\* finds its surface through the device and crtc of its Output.
CallbacksOf(k) ==
    {cb \in Pending(W) : HasKey(W, cb.output) /\ KeyOf(W, cb.output) = k}

\* C35: in every reachable state, a surface has exactly one deferred render
\* callback pending when it is Scheduled, and none pending otherwise.
C35_CallbackIffScheduled ==
    \A k \in Keys :
        (k[1] \in backends /\ surfaces[k] # NoSurface) =>
            Cardinality(CallbacksOf(k)) =
                (IF surfaces[k].render_state.tag = "Scheduled" THEN 1 ELSE 0)

----------------------------------------------------------------------------
(* Captures and the session lock (SpecLock) *)

\* The capture counters of every surface.
CommitStates ==
    [k \in Keys |-> IF surfaces[k] = NoSurface THEN NoSurface
                    ELSE surfaces[k].screencopy_commit_state]

\* C36: a render pass of either backend that runs while the session is locking
\* or locked leaves every pending capture attached and untouched: it takes no
\* capture, sends no damage and no submit, registers no deferred submit and
\* leaves the capture counters as they were; a capture is taken only by a pass
\* that runs while the session is unlocked.
C36_NoCaptureWhileLocked ==
    [][ IsAnyRenderPass(last') =>
          /\ lock_state' = lock_state
          /\ lock_state # "unlocked" =>
                /\ ~last'.capture.taken
                /\ ~last'.capture.damage_sent
                /\ last'.capture.outcome = "none"
                /\ screencopy' = screencopy
                /\ sync_sources' = sync_sources
                /\ CommitStates' = CommitStates
          /\ last'.capture.taken => lock_state = "unlocked"
      ]_vars

\* C36 witness: a render pass built a frame while the session was locking and
\* the capture of its output is still pending.
C36_Witness ==
    /\ IsAnyRenderPass(last) /\ last.built
    /\ lock_state = "locking"
    /\ screencopy[last.output] # NoCapture

----------------------------------------------------------------------------
(* The API client's messages (SpecClient) *)

\* How many calls to callbacks carried the CallCallback message numbered n.
DeliveriesOf(n) ==
    Cardinality({i \in 1..Len(client.delivered) : client.delivered[i].args = n})

\* setup has delivered what was buffered and blocks in read_msg(None) on an
\* empty socket: nothing more is delivered until the compositor sends again.
ClientQuiet ==
    /\ client.stuck = "none"
    /\ client.pc = "read"
    /\ client.stream = << >>

\* C38: request returns the response that carries the id it sent, and the
\* messages read while it waited are delivered exactly once: no CallCallback
\* message is delivered twice, and when setup waits on an empty socket every
\* CallCallback message the compositor sent has been delivered to its callback
\* and no response is left buffered.
C38_BufferedDeliveredOnce ==
    /\ \A i \in 1..Len(client.returned) :
           client.returned[i].response = client.returned[i].request_id
    /\ \A n \in 1..client.sent : DeliveriesOf(n) <= 1
    /\ ClientQuiet =>
           /\ \A n \in 1..client.sent : DeliveriesOf(n) = 1
           /\ \A id \in RequestIds : client.UNREAD_REQUEST_MSGS[id] = NoMsg

\* C39: no lock of the client is taken again by the thread that holds it: the
\* client never blocks or panics on UNREAD_CALLBACK_MSGS or CALLBACK_VEC.
C39_NoSelfDeadlock == client.stuck \notin Relock

----------------------------------------------------------------------------
(* The layout cycler (SpecCycler) *)

\* The index a tag has for the cycler: a tag without an entry counts as 0.
IndexOf(index) == IF index = NoIndex THEN 0 ELSE index

\* What every call of next or prev does to the indices: they stay within
\* 0..n-1, the index of the active tag moves by one and wraps, no other tag's
\* index or layout changes, and a call without an active tag changes nothing.
CycleStep ==
    LET n == Len(cycler.layouts)
        t == last'.tag
    IN  /\ \A u \in TagIds : cycler'.indices[u] \in {NoIndex} \cup 0..(n - 1)
        /\ t = NoTag => cycler' = cycler
        /\ t # NoTag =>
              /\ cycler'.indices[t] \in 0..(n - 1)
              /\ last'.cycle = "Forward" =>
                    cycler'.indices[t] =
                        IF IndexOf(cycler.indices[t]) = n - 1 THEN 0
                        ELSE IndexOf(cycler.indices[t]) + 1
              /\ last'.cycle = "Backward" =>
                    cycler'.indices[t] =
                        IF IndexOf(cycler.indices[t]) = 0 THEN n - 1
                        ELSE IndexOf(cycler.indices[t]) - 1
              /\ \A u \in TagIds \ {t} :
                    /\ cycler'.indices[u] = cycler.indices[u]
                    /\ cycler'.layout[u] = cycler.layout[u]

\* The step is a prev on the tag the step before it called next on.
PrevAfterNext ==
    /\ last.op = "cycle" /\ last.cycle = "Forward" /\ last.tag # NoTag
    /\ last'.op = "cycle" /\ last'.cycle = "Backward" /\ last'.tag = last.tag

\* C40 as stated: the indices stay within 0..n-1, next and prev move the
\* active tag's index by one and wrap, other tags are left alone, and next
\* followed by prev on the same active tag restores the layout the tag had.
C40_NextPrevRestoresLayout ==
    [][ /\ last'.op = "cycle" => CycleStep
        /\ PrevAfterNext => cycler'.layout[last.tag] = last.layout
      ]_vars

\* C40, amended: the indices stay within 0..n-1, next and prev move the active
\* tag's index by one and wrap, other tags are left alone, every call sets the
\* active tag's layout to the list's entry at the new index, and next followed
\* by prev on the same active tag restores the tag's index (0 for a tag the
\* cycler had not acted on) and sets the layout the list has at that index.
C40_NextPrevRestoresIndex ==
    [][ /\ last'.op = "cycle" =>
              /\ CycleStep
              /\ last'.tag # NoTag =>
                    cycler'.layout[last'.tag] =
                        cycler.layouts[cycler'.indices[last'.tag] + 1]
        /\ PrevAfterNext =>
              /\ cycler'.indices[last.tag] = IndexOf(last.index)
              /\ cycler'.layout[last.tag] = cycler.layouts[IndexOf(last.index) + 1]
      ]_vars

\* C40 witness: prev wrapped the active tag's index from 0 to n-1 with n >= 2
\* while another tag keeps an index of its own.
C40_Witness ==
    /\ last.op = "cycle" /\ last.cycle = "Backward" /\ last.tag # NoTag
    /\ last.index = 0
    /\ Len(cycler.layouts) >= 2
    /\ cycler.indices[last.tag] = Len(cycler.layouts) - 1
    /\ \E u \in TagIds \ {last.tag} :
           cycler.indices[u] \notin {NoIndex, cycler.indices[last.tag]}

====
